---- MODULE Spec2Model ----
(***************************************************************************)
(* A model of the DMG emulator core: Cpu (src/src/emu/cpu.rs), Bus         *)
(* (src/src/emu/bus.rs), Ppu (src/src/emu/ppu.rs) and the frame loop of    *)
(* Emulator (src/src/emu/mod.rs).                                          *)
(*                                                                         *)
(* u8 and u16 values are integers kept in range with % 256 and % 65536.    *)
(* The zero-initialised arrays wram, hram, vram and oam are finite maps    *)
(* that hold only their non-zero cells (MGet / MPut).                      *)
(* The framebuffer is observed at the pixels of SamplePixels.              *)
(***************************************************************************)
EXTENDS Integers, Sequences, FiniteSets, TLC

VARIABLES
    cpu,        \* Emulator.cpu  : the Cpu struct
    bus,        \* Emulator.bus  : the Bus struct (with its Ppu)
    rf,         \* where run_frame stands: "cpu" before cpu.step, "bus" before bus.step(c)
    c,          \* run_frame's local c, the cycles the last cpu.step returned
    cycles,     \* run_frame's local cycles
    pending,    \* Cpu::step's local pending of the last cpu.step
    fetched,    \* whether the last cpu.step reached fetch8
    disp,       \* the bit the last cpu.step dispatched, -1 when it dispatched none
    opc,        \* the opcode the last cpu.step fetched, -1 when it fetched none
    vblank,     \* Bus::step's local vblank of the last bus.step
    stat_irq,   \* Bus::step's local stat_irq of the last bus.step
    rendered,   \* how often the last bus.step called render_background
    last,       \* the last operation: "new", "cpu", "step", "write" or "panic"
    total,      \* the cycles passed to bus.step since construction
    frames,     \* the render_background calls since construction
    vblanks,    \* the bus.step calls since construction that returned vblank
    saved       \* the Cpu as it was constructed

vars == <<cpu, bus, rf, c, cycles, pending, fetched, disp, opc,
          vblank, stat_irq, rendered, last, total, frames, vblanks, saved>>

----------------------------------------------------------------------------
(* Program constants *)

SCREEN_W == 160
SCREEN_H == 144
ScanlineCycles == 456
VBlankLine == 144
LinesPerFrame == 154
FrameCycles == 70224
IrqCycles == 20
HaltCycles == 4

----------------------------------------------------------------------------
(* Bit arithmetic on u8 *)

Pow2(n) == 2 ^ n

Bit(x, n) == (x \div Pow2(n)) % 2

\* & on the low n bits of x and y
RECURSIVE AndBits(_, _, _)
AndBits(x, y, n) ==
    IF n = 0 THEN 0
    ELSE (x % 2) * (y % 2) + 2 * AndBits(x \div 2, y \div 2, n - 1)

\* & on two 4-bit halves
AndNibble == [a \in 0..15 |-> [b \in 0..15 |-> AndBits(a, b, 4)]]

And8(x, y) ==
    AndNibble[x % 16][y % 16] + 16 * AndNibble[x \div 16][y \div 16]

Not8(x) == 255 - x

Or8(x, y) == x + y - And8(x, y)

Xor8(x, y) == x + y - 2 * And8(x, y)

\* u8::trailing_zeros of a non-zero byte
TrailingZeros(x) == CHOOSE n \in 0..7 : Bit(x, n) = 1 /\ x % Pow2(n) = 0

W16(x) == x % 65536

W8(x) == x % 256

----------------------------------------------------------------------------
(* Zero-initialised arrays *)

EmptyMem == [i \in {} |-> 0]

MGet(m, i) == IF i \in DOMAIN m THEN m[i] ELSE 0

MPut(m, i, v) ==
    IF v = 0
    THEN [j \in (DOMAIN m) \ {i} |-> m[j]]
    ELSE [j \in (DOMAIN m) \cup {i} |-> IF j = i THEN v ELSE m[j]]

----------------------------------------------------------------------------
(* Ppu *)

\* The pixels (x, y) at which the framebuffer is observed
SamplePixels == {<<0, 0>>, <<7, 0>>, <<8, 3>>, <<159, 143>>}

FbZero == [px \in SamplePixels |-> <<0, 0, 0, 0>>]

FbFill == [px \in SamplePixels |-> <<255, 255, 255, 255>>]

PpuNew ==
    [fb |-> FbZero, lcdc |-> \h91, stat |-> \h85, scy |-> 0, scx |-> 0,
     ly |-> 0, lyc |-> 0, bgp |-> \hFC, wy |-> 0, wx |-> 0,
     cycle_acc |-> 0, mode |-> 1]

MapPalette(palette, color_id) ==
    LET sel == (palette \div Pow2(color_id * 2)) % 4
    IN  CASE sel = 0 -> \hFF
          [] sel = 1 -> \hAA
          [] sel = 2 -> \h55
          [] OTHER   -> \h00

Signed8(v) == IF v >= 128 THEN v - 256 ELSE v

\* The shade of the tile pixel (px, py) of the 32x32 tile map at map_base
TileShade(p, vram, map_base, px, py) ==
    LET tile_map_index == (py \div 8) * 32 + (px \div 8)
        tile_num  == MGet(vram, map_base - \h8000 + tile_map_index)
        tile_addr == IF Bit(p.lcdc, 4) = 0
                     THEN W16(\h9000 + Signed8(tile_num) * 16)
                     ELSE \h8000 + tile_num * 16
        line  == py % 8
        byte0 == MGet(vram, W16(tile_addr + line * 2 - \h8000))
        byte1 == MGet(vram, W16(tile_addr + line * 2 + 1 - \h8000))
        bit   == 7 - (px % 8)
        color_id == 2 * Bit(byte1, bit) + Bit(byte0, bit)
    IN  MapPalette(p.bgp, color_id)

BgShadeNoWrap(p, vram, x, y) ==
    TileShade(p, vram, IF Bit(p.lcdc, 3) = 1 THEN \h9C00 ELSE \h9800,
              x + p.scx, y + p.scy)

BgShade(p, vram, x, y) ==
    LET sy == (y + p.scy) % 256
        sx == (x + p.scx) % 256
    IN  TileShade(p, vram, IF Bit(p.lcdc, 3) = 1 THEN \h9C00 ELSE \h9800, sx, sy)

WinCovers(p, x, y) ==
    /\ Bit(p.lcdc, 5) = 1
    /\ ~(y < p.wy)
    /\ ~(x < W8(p.wx + 256 - 7))

WinShade(p, vram, x, y) ==
    TileShade(p, vram, IF Bit(p.lcdc, 6) = 1 THEN \h9C00 ELSE \h9800,
              x - W8(p.wx + 256 - 7), y - p.wy)

RenderBackground(p, vram) ==
    IF Bit(p.lcdc, 7) = 0
    THEN [p EXCEPT !.fb = FbFill]
    ELSE [p EXCEPT
            !.fb = [px \in SamplePixels |->
                      LET shade == IF WinCovers(p, px[1], px[2])
                                   THEN WinShade(p, vram, px[1], px[2])
                                   ELSE BgShade(p, vram, px[1], px[2])
                      IN  <<shade, shade, shade, \hFF>>],
            !.mode = 0]

UpdateStat(p, vbl) ==
    LET lyc_match == p.ly = p.lyc
        s1 == IF lyc_match THEN Or8(p.stat, \h04) ELSE And8(p.stat, Not8(\h04))
        s2 == Or8(And8(s1, Not8(\h03)), And8(p.mode, \h03))
        irq == \/ lyc_match /\ Bit(s2, 6) = 1
               \/ p.mode = 2 /\ Bit(s2, 5) = 1
               \/ p.mode = 1 /\ Bit(s2, 4) = 1
               \/ p.mode = 0 /\ Bit(s2, 3) = 1
        s3 == IF vbl THEN Or8(s2, \h01) ELSE s2
    IN  [ppu |-> [p EXCEPT !.stat = s3], irq |-> irq]

\* ScanLoop wrapping LY one line late
RECURSIVE ScanLoopLateWrap(_, _)
ScanLoopLateWrap(s, vram) ==
    IF s.ppu.cycle_acc >= ScanlineCycles
    THEN LET p1 == [s.ppu EXCEPT !.cycle_acc = @ - ScanlineCycles,
                                 !.ly = W8(@ + 1)]
         IN  IF p1.ly = VBlankLine
             THEN ScanLoopLateWrap([s EXCEPT !.ppu = p1, !.vblank = TRUE], vram)
             ELSE IF p1.ly > LinesPerFrame
             THEN ScanLoopLateWrap([s EXCEPT
                              !.ppu = RenderBackground([p1 EXCEPT !.ly = 0], vram),
                              !.rendered = @ + 1], vram)
             ELSE ScanLoopLateWrap([s EXCEPT !.ppu = p1], vram)
    ELSE s

\* ScanLoop ending a scanline only past 456 cycles
RECURSIVE ScanLoopLateLine(_, _)
ScanLoopLateLine(s, vram) ==
    IF s.ppu.cycle_acc > ScanlineCycles
    THEN LET p1 == [s.ppu EXCEPT !.cycle_acc = @ - ScanlineCycles,
                                 !.ly = W8(@ + 1)]
         IN  IF p1.ly = VBlankLine
             THEN ScanLoopLateLine([s EXCEPT !.ppu = p1, !.vblank = TRUE], vram)
             ELSE IF p1.ly >= LinesPerFrame
             THEN ScanLoopLateLine([s EXCEPT
                              !.ppu = RenderBackground([p1 EXCEPT !.ly = 0], vram),
                              !.rendered = @ + 1], vram)
             ELSE ScanLoopLateLine([s EXCEPT !.ppu = p1], vram)
    ELSE s

\* ScanLoop reporting VBlank on every line of the VBlank period
RECURSIVE ScanLoopVBlankLevel(_, _)
ScanLoopVBlankLevel(s, vram) ==
    IF s.ppu.cycle_acc >= ScanlineCycles
    THEN LET p1 == [s.ppu EXCEPT !.cycle_acc = @ - ScanlineCycles,
                                 !.ly = W8(@ + 1)]
         IN  IF p1.ly >= VBlankLine /\ p1.ly < LinesPerFrame
             THEN ScanLoopVBlankLevel([s EXCEPT !.ppu = p1, !.vblank = TRUE], vram)
             ELSE IF p1.ly >= LinesPerFrame
             THEN ScanLoopVBlankLevel([s EXCEPT
                              !.ppu = RenderBackground([p1 EXCEPT !.ly = 0], vram),
                              !.rendered = @ + 1], vram)
             ELSE ScanLoopVBlankLevel([s EXCEPT !.ppu = p1], vram)
    ELSE s

\* ScanLoop rendering the frame when line 144 starts
RECURSIVE ScanLoopRendersAtVBlank(_, _)
ScanLoopRendersAtVBlank(s, vram) ==
    IF s.ppu.cycle_acc >= ScanlineCycles
    THEN LET p1 == [s.ppu EXCEPT !.cycle_acc = @ - ScanlineCycles,
                                 !.ly = W8(@ + 1)]
         IN  IF p1.ly = VBlankLine
             THEN ScanLoopRendersAtVBlank([s EXCEPT
                              !.ppu = RenderBackground(p1, vram),
                              !.vblank = TRUE,
                              !.rendered = @ + 1], vram)
             ELSE IF p1.ly >= LinesPerFrame
             THEN ScanLoopRendersAtVBlank([s EXCEPT !.ppu = [p1 EXCEPT !.ly = 0]], vram)
             ELSE ScanLoopRendersAtVBlank([s EXCEPT !.ppu = p1], vram)
    ELSE s

\* The while loop of Ppu::step; s = [ppu, vblank, rendered]
RECURSIVE ScanLoop(_, _)
ScanLoop(s, vram) ==
    IF s.ppu.cycle_acc >= ScanlineCycles
    THEN LET p1 == [s.ppu EXCEPT !.cycle_acc = @ - ScanlineCycles,
                                 !.ly = W8(@ + 1)]
         IN  IF p1.ly = VBlankLine
             THEN ScanLoop([s EXCEPT !.ppu = p1, !.vblank = TRUE], vram)
             ELSE IF p1.ly >= LinesPerFrame
             THEN ScanLoop([s EXCEPT
                              !.ppu = RenderBackground([p1 EXCEPT !.ly = 0], vram),
                              !.rendered = @ + 1], vram)
             ELSE ScanLoop([s EXCEPT !.ppu = p1], vram)
    ELSE s

\* PpuStepOff returning what update_stat computed
PpuStepOffIrq(p) ==
    LET p1 == [p EXCEPT !.ly = 0, !.fb = FbFill, !.mode = 0]
        u  == UpdateStat(p1, FALSE)
    IN  [ppu |-> u.ppu, vblank |-> FALSE, stat_irq |-> u.irq, rendered |-> 0]

\* Ppu::step with the LCD disabled
PpuStepOff(p) ==
    LET p1 == [p EXCEPT !.ly = 0, !.fb = FbFill, !.mode = 0]
    IN  [ppu |-> UpdateStat(p1, FALSE).ppu, vblank |-> FALSE,
         stat_irq |-> FALSE, rendered |-> 0]

ModeOfStale(q) == q.mode

\* The mode that Ppu::step selects after the scanline loop
ModeOf(q) ==
    IF q.ly >= VBlankLine THEN 1
    ELSE IF q.cycle_acc < 80 THEN 2
    ELSE IF q.cycle_acc < 252 THEN 3
    ELSE 0

PpuStep(p, cyc, vram) ==
    IF Bit(p.lcdc, 7) = 0
    THEN PpuStepOff(p)
    ELSE LET Ret(s, u) == [ppu |-> u.ppu, vblank |-> s.vblank, stat_irq |-> u.irq,
                           rendered |-> s.rendered]
             \* after the while loop, s = [ppu, vblank, rendered]
             After(s, mode) ==
                 Ret(s, UpdateStat([s.ppu EXCEPT !.mode = mode],
                                   s.vblank \/ mode # s.ppu.mode))
             Scanned(s) == After(s, ModeOf(s.ppu))
         IN  Scanned(ScanLoop([ppu |-> [p EXCEPT !.cycle_acc = @ + cyc],
                               vblank |-> FALSE, rendered |-> 0], vram))

----------------------------------------------------------------------------
(* Cartridge and Bus *)

\* The length of the cartridge image: a fixed 32 KiB ROM
RomLen == 32768

JoypadDefault ==
    [up |-> FALSE, down |-> FALSE, left |-> FALSE, right |-> FALSE,
     a |-> FALSE, b |-> FALSE, start |-> FALSE, select |-> FALSE]

\* Cartridge.rom holds the non-zero bytes of the image
CartRead(cart, addr) == IF addr < cart.len THEN MGet(cart.rom, addr) ELSE \hFF

BusNew(cart) ==
    [cart |-> cart, wram |-> EmptyMem, hram |-> EmptyMem, vram |-> EmptyMem,
     oam |-> EmptyMem, ppu |-> PpuNew, joypad |-> JoypadDefault,
     joyp_select |-> 0, ie |-> 0, iflag |-> 0,
     div |-> 0, tima |-> 0, tma |-> 0, tac |-> 0, timer_counter |-> 0]

ReadJoyp(b) ==
    LET res0 == Or8(\hCF, And8(b.joyp_select, \h30))
        sel_dpad == And8(b.joyp_select, \h10) = 0
        sel_btn  == And8(b.joyp_select, \h20) = 0
        Clr(res, on, mask) == IF on THEN And8(res, Not8(mask)) ELSE res
        d == Clr(Clr(Clr(Clr(res0, sel_dpad /\ b.joypad.right, \h01),
                         sel_dpad /\ b.joypad.left, \h02),
                     sel_dpad /\ b.joypad.up, \h04),
                 sel_dpad /\ b.joypad.down, \h08)
    IN  Clr(Clr(Clr(Clr(d, sel_btn /\ b.joypad.a, \h01),
                    sel_btn /\ b.joypad.b, \h02),
                sel_btn /\ b.joypad.select, \h04),
            sel_btn /\ b.joypad.start, \h08)

EchoIndexApart(addr) == addr - \hC000

\* The index in wram of the echo address addr
EchoIndex(addr) == addr - \hE000

Read8(b, addr) ==
    CASE addr <= \h7FFF -> CartRead(b.cart, addr)
      [] addr >= \h8000 /\ addr <= \h9FFF -> MGet(b.vram, addr - \h8000)
      [] addr >= \hC000 /\ addr <= \hDFFF -> MGet(b.wram, addr - \hC000)
      [] addr >= \hE000 /\ addr <= \hFDFF -> MGet(b.wram, EchoIndex(addr))
      [] addr >= \hFE00 /\ addr <= \hFE9F -> MGet(b.oam, addr - \hFE00)
      [] addr = \hFF00 -> ReadJoyp(b)
      [] addr = \hFF40 -> b.ppu.lcdc
      [] addr = \hFF41 -> b.ppu.stat
      [] addr = \hFF42 -> b.ppu.scy
      [] addr = \hFF43 -> b.ppu.scx
      [] addr = \hFF44 -> b.ppu.ly
      [] addr = \hFF45 -> b.ppu.lyc
      [] addr = \hFF47 -> b.ppu.bgp
      [] addr = \hFF4A -> b.ppu.wy
      [] addr = \hFF4B -> b.ppu.wx
      [] addr = \hFF04 -> b.div \div 256
      [] addr = \hFF05 -> b.tima
      [] addr = \hFF06 -> b.tma
      [] addr = \hFF07 -> Or8(b.tac, \hF8)
      [] addr >= \hFF80 /\ addr <= \hFFFE -> MGet(b.hram, addr - \hFF80)
      [] addr = \hFF0F -> b.iflag
      [] addr = \hFFFF -> b.ie
      [] OTHER -> \hFF

\* The OAM DMA copying 159 bytes
OamDmaOneShort(b, v) ==
    LET src == {i \in 0..158 : Read8(b, v * 256 + i) # 0}
    IN  [b EXCEPT !.oam = [i \in src |-> Read8(b, v * 256 + i)]]

\* The OAM DMA of a write to 0xFF46: oam[i] = read8(base + i), i in 0..0x9F
OamDma(b, v) ==
    LET src == {i \in 0..159 : Read8(b, v * 256 + i) # 0}
    IN  [b EXCEPT !.oam = [i \in src |-> Read8(b, v * 256 + i)]]

WriteUnmappedAnyDma(b, addr, v) == OamDma(b, v)

\* The `_` arm of write8: the OAM DMA of 0xFF46, nothing for any other address
WriteUnmapped(b, addr, v) == IF addr = \hFF46 THEN OamDma(b, v) ELSE b

Write8(b, addr, v) ==
    CASE addr >= \h8000 /\ addr <= \h9FFF -> [b EXCEPT !.vram = MPut(@, addr - \h8000, v)]
      [] addr >= \hC000 /\ addr <= \hDFFF -> [b EXCEPT !.wram = MPut(@, addr - \hC000, v)]
      [] addr >= \hE000 /\ addr <= \hFDFF -> [b EXCEPT !.wram = MPut(@, EchoIndex(addr), v)]
      [] addr >= \hFE00 /\ addr <= \hFE9F -> [b EXCEPT !.oam = MPut(@, addr - \hFE00, v)]
      [] addr = \hFF00 -> [b EXCEPT !.joyp_select = And8(v, \h30)]
      [] addr = \hFF40 -> [b EXCEPT !.ppu.lcdc = v]
      [] addr = \hFF41 -> [b EXCEPT !.ppu.stat = Or8(And8(@, \h07), And8(v, \h78))]
      [] addr = \hFF42 -> [b EXCEPT !.ppu.scy = v]
      [] addr = \hFF43 -> [b EXCEPT !.ppu.scx = v]
      [] addr = \hFF44 -> [b EXCEPT !.ppu.ly = 0]
      [] addr = \hFF45 -> [b EXCEPT !.ppu.lyc = v]
      [] addr = \hFF47 -> [b EXCEPT !.ppu.bgp = v]
      [] addr = \hFF4A -> [b EXCEPT !.ppu.wy = v]
      [] addr = \hFF4B -> [b EXCEPT !.ppu.wx = v]
      [] addr = \hFF04 -> [b EXCEPT !.div = 0]
      [] addr = \hFF05 -> [b EXCEPT !.tima = v]
      [] addr = \hFF06 -> [b EXCEPT !.tma = v]
      [] addr = \hFF07 -> [b EXCEPT !.tac = And8(v, \h07)]
      [] addr >= \hFF80 /\ addr <= \hFFFE -> [b EXCEPT !.hram = MPut(@, addr - \hFF80, v)]
      [] addr = \hFF0F -> [b EXCEPT !.iflag = v]
      [] addr = \hFFFF -> [b EXCEPT !.ie = v]
      [] OTHER -> WriteUnmapped(b, addr, v)

TimerFreqDivider(b) ==
    LET sel == And8(b.tac, \h03)
    IN  CASE sel = 0 -> 1024
          [] sel = 1 -> 16
          [] sel = 2 -> 64
          [] OTHER   -> 256

\* One increment of TIMA that drops what is left of the accumulator
TimerLoopDropsRest(b, period) ==
    IF b.timer_counter >= period
    THEN [b EXCEPT !.timer_counter = 0,
                   !.tima = IF @ = 255 THEN b.tma ELSE @ + 1,
                   !.iflag = IF b.tima = 255 THEN Or8(@, \h04) ELSE @]
    ELSE b

\* The while loop of Bus::tick_timer
RECURSIVE TimerLoop(_, _)
TimerLoop(b, period) ==
    IF b.timer_counter >= period
    THEN LET b1 == [b EXCEPT !.timer_counter = @ - period]
         IN  IF b1.tima = 255
             THEN TimerLoop([b1 EXCEPT !.tima = b1.tma,
                                       !.iflag = Or8(@, \h04)], period)
             ELSE TimerLoop([b1 EXCEPT !.tima = @ + 1], period)
    ELSE b

\* tick_timer advancing div only while the timer is enabled
TickTimerGated(b, cyc) ==
    IF And8(b.tac, \h04) = 0
    THEN b
    ELSE TimerLoop([b EXCEPT !.div = W16(@ + W16(cyc * 4)),
                             !.timer_counter = @ + cyc], TimerFreqDivider(b))

TickTimer(b, cyc) ==
    LET b1 == [b EXCEPT !.div = W16(@ + W16(cyc * 4))]
    IN  IF And8(b1.tac, \h04) = 0
        THEN b1
        ELSE TimerLoop([b1 EXCEPT !.timer_counter = @ + cyc], TimerFreqDivider(b1))

\* Bus::step storing the raised flag in iflag instead of or-ing it in
BusStepAssigns(b, cyc) ==
    LET SetIf(flags, on, mask) == IF on THEN mask ELSE flags
        Latch(r) ==
            [bus |-> TickTimer([b EXCEPT
                                  !.ppu = r.ppu,
                                  !.iflag = SetIf(SetIf(@, r.vblank, \h01),
                                                  r.stat_irq, \h02)], cyc),
             vblank |-> r.vblank, stat_irq |-> r.stat_irq, rendered |-> r.rendered]
    IN  Latch(PpuStep(b.ppu, cyc, b.vram))

\* Bus::step that does not latch the VBlank result of ppu.step
BusStepDropsVBlank(b, cyc) ==
    LET SetIf(flags, on, mask) == IF on THEN Or8(flags, mask) ELSE flags
        Latch(r) ==
            [bus |-> TickTimer([b EXCEPT
                                  !.ppu = r.ppu,
                                  !.iflag = SetIf(@, r.stat_irq, \h02)], cyc),
             vblank |-> r.vblank, stat_irq |-> r.stat_irq, rendered |-> r.rendered]
    IN  Latch(PpuStep(b.ppu, cyc, b.vram))

\* Bus::step with the results of ppu.step it latches: [bus, vblank, stat_irq, rendered]
BusStepR(b, cyc) ==
    LET SetIf(flags, on, mask) == IF on THEN Or8(flags, mask) ELSE flags
        \* r is what ppu.step left and returned
        Latch(r) ==
            [bus |-> TickTimer([b EXCEPT
                                  !.ppu = r.ppu,
                                  !.iflag = SetIf(SetIf(@, r.vblank, \h01),
                                                  r.stat_irq, \h02)], cyc),
             vblank |-> r.vblank, stat_irq |-> r.stat_irq, rendered |-> r.rendered]
    IN  Latch(PpuStep(b.ppu, cyc, b.vram))

----------------------------------------------------------------------------
(* Cpu *)

\* to_byte with the carry flag one bit low
ToByteCarryLow(f) ==
    (IF f.z THEN 128 ELSE 0) + (IF f.n THEN 64 ELSE 0)
    + (IF f.h THEN 32 ELSE 0) + (IF f.c THEN 8 ELSE 0)

ToByte(f) ==
    (IF f.z THEN 128 ELSE 0) + (IF f.n THEN 64 ELSE 0)
    + (IF f.h THEN 32 ELSE 0) + (IF f.c THEN 16 ELSE 0)

FromByte(v) ==
    [z |-> And8(v, \h80) # 0, n |-> And8(v, \h40) # 0,
     h |-> And8(v, \h20) # 0, c |-> And8(v, \h10) # 0]

CpuNew ==
    [a |-> \h01, f |-> [z |-> TRUE, n |-> FALSE, h |-> TRUE, c |-> TRUE],
     b |-> \h00, c |-> \h13, d |-> \h00, e |-> \hD8, h |-> \h01, l |-> \h4D,
     sp |-> \hFFFE, pc |-> \h0100, ime |-> FALSE, halted |-> FALSE]

BC(cp) == cp.b * 256 + cp.c

DE(cp) == cp.d * 256 + cp.e

HL(cp) == cp.h * 256 + cp.l

GetReg(cp, idx) ==
    CASE idx = 0 -> cp.b
      [] idx = 1 -> cp.c
      [] idx = 2 -> cp.d
      [] idx = 3 -> cp.e
      [] idx = 4 -> cp.h
      [] idx = 5 -> cp.l
      [] idx = 7 -> cp.a

SetReg(cp, idx, v) ==
    CASE idx = 0 -> [cp EXCEPT !.b = v]
      [] idx = 1 -> [cp EXCEPT !.c = v]
      [] idx = 2 -> [cp EXCEPT !.d = v]
      [] idx = 3 -> [cp EXCEPT !.e = v]
      [] idx = 4 -> [cp EXCEPT !.h = v]
      [] idx = 5 -> [cp EXCEPT !.l = v]
      [] idx = 7 -> [cp EXCEPT !.a = v]

\* The rotates, shifts and swap of cb_op: [val, c]
CbShift(kind, val, carry) ==
    LET cin == IF carry THEN 1 ELSE 0
    IN  CASE kind = 0 -> [val |-> ((val * 2) % 256) + (val \div 128), c |-> val >= 128]
          [] kind = 1 -> [val |-> (val \div 2) + 128 * (val % 2), c |-> val % 2 = 1]
          [] kind = 2 -> [val |-> ((val * 2) % 256) + cin, c |-> val >= 128]
          [] kind = 3 -> [val |-> (val \div 2) + 128 * cin, c |-> val % 2 = 1]
          [] kind = 4 -> [val |-> (val * 2) % 256, c |-> val >= 128]
          [] kind = 5 -> [val |-> (val \div 2) + 128 * (val \div 128), c |-> val % 2 = 1]
          [] kind = 6 -> [val |-> (val \div 16) + 16 * (val % 16), c |-> FALSE]
          [] kind = 7 -> [val |-> val \div 2, c |-> val % 2 = 1]

\* Cpu::cb_op: [cpu, bus, cycles]; cp is the Cpu after both fetches
CbOp(cp, b, op) ==
    LET target == op % 8
        bit    == (op \div 8) % 8
        group  == op \div 64
        val    == IF target = 6 THEN Read8(b, HL(cp)) ELSE GetReg(cp, target)
        cyc    == IF target = 6 THEN 16 ELSE 8
        Store(xcp, v) ==
            IF target = 6
            THEN [cpu |-> xcp, bus |-> Write8(b, HL(xcp), v), cycles |-> cyc]
            ELSE [cpu |-> SetReg(xcp, target, v), bus |-> b, cycles |-> cyc]
        Shifted(r) ==
            Store([cp EXCEPT !.f = [z |-> r.val = 0, n |-> FALSE, h |-> FALSE,
                                    c |-> r.c]], r.val)
    IN  CASE group = 0 -> Shifted(CbShift(bit, val, cp.f.c))
          [] group = 1 ->
               [cpu |-> [cp EXCEPT !.f.z = (Bit(val, bit) = 0), !.f.n = FALSE,
                                   !.f.h = TRUE],
                bus |-> b, cycles |-> cyc]
          [] group = 2 -> Store(cp, And8(val, Not8(Pow2(bit))))
          [] group = 3 -> Store(cp, Or8(val, Pow2(bit)))

\* push16 writing the low byte first
Push16LowFirst(s, v) ==
    LET sp1 == W16(s.cpu.sp + 65535)
        b1  == Write8(s.bus, sp1, v % 256)
        sp2 == W16(sp1 + 65535)
    IN  [cpu |-> [s.cpu EXCEPT !.sp = sp2], bus |-> Write8(b1, sp2, v \div 256)]

\* push16 and pop16 act on s = [cpu, bus]
Push16(s, v) ==
    LET sp1 == W16(s.cpu.sp + 65535)
        b1  == Write8(s.bus, sp1, v \div 256)
        sp2 == W16(sp1 + 65535)
    IN  [cpu |-> [s.cpu EXCEPT !.sp = sp2], bus |-> Write8(b1, sp2, v % 256)]

Pop16(s) ==
    LET lo == Read8(s.bus, s.cpu.sp)
        hi == Read8(s.bus, W16(s.cpu.sp + 1))
    IN  [cpu |-> [s.cpu EXCEPT !.sp = W16(@ + 2)], bus |-> s.bus, v |-> hi * 256 + lo]

\* add_a with the half carry raised one early
AddAHalfEarly(cp, v) ==
    LET res == W8(cp.a + v)
    IN  [cp EXCEPT !.f = [z |-> res = 0, n |-> FALSE,
                          h |-> And8(cp.a, \h0F) + And8(v, \h0F) >= \h0F,
                          c |-> cp.a + v > 255],
                   !.a = res]

AddA(cp, v) ==
    LET res == W8(cp.a + v)
    IN  [cp EXCEPT !.f = [z |-> res = 0, n |-> FALSE,
                          h |-> And8(cp.a, \h0F) + And8(v, \h0F) > \h0F,
                          c |-> cp.a + v > 255],
                   !.a = res]

SubA(cp, v) ==
    LET res == W8(cp.a + 256 - v)
    IN  [cp EXCEPT !.f = [z |-> res = 0, n |-> TRUE,
                          h |-> And8(cp.a, \h0F) < And8(v, \h0F),
                          c |-> cp.a < v],
                   !.a = res]

AdcA(cp, v) ==
    LET cin == IF cp.f.c THEN 1 ELSE 0
        t   == W8(cp.a + v)
        c1  == cp.a + v > 255
        res == W8(t + cin)
        c2  == t + cin > 255
    IN  [cp EXCEPT !.f = [z |-> res = 0, n |-> FALSE,
                          h |-> And8(cp.a, \h0F) + And8(v, \h0F) + cin > \h0F,
                          c |-> c1 \/ c2],
                   !.a = res]

\* sbc_a with the half borrow of sub_a
SbcAHalfPlain(cp, v) ==
    LET cin == IF cp.f.c THEN 1 ELSE 0
        t   == W8(cp.a + 256 - v)
        res == W8(t + 256 - cin)
    IN  [cp EXCEPT !.f = [z |-> res = 0, n |-> TRUE,
                          h |-> And8(cp.a, \h0F) < And8(v, \h0F),
                          c |-> cp.a < v \/ t < cin],
                   !.a = res]

SbcA(cp, v) ==
    LET cin == IF cp.f.c THEN 1 ELSE 0
        t   == W8(cp.a + 256 - v)
        b1  == cp.a < v
        res == W8(t + 256 - cin)
        b2  == t < cin
    IN  [cp EXCEPT !.f = [z |-> res = 0, n |-> TRUE,
                          h |-> And8(cp.a, \h0F) < And8(v, \h0F) + cin,
                          c |-> b1 \/ b2],
                   !.a = res]

CpA(cp, v) ==
    LET res == W8(cp.a + 256 - v)
    IN  [cp EXCEPT !.f = [z |-> res = 0, n |-> TRUE,
                          h |-> And8(cp.a, \h0F) < And8(v, \h0F),
                          c |-> cp.a < v]]

XorA(cp, v) ==
    LET res == Xor8(cp.a, v)
    IN  [cp EXCEPT !.a = res,
                   !.f = [z |-> res = 0, n |-> FALSE, h |-> FALSE, c |-> FALSE]]

\* The condition of a conditional opcode: bits 3-4 select NZ, Z, NC, C
CondTrue(cp, op) ==
    LET cc == (op \div 8) % 4
    IN  CASE cc = 0 -> ~cp.f.z
          [] cc = 1 -> cp.f.z
          [] cc = 2 -> ~cp.f.c
          [] cc = 3 -> cp.f.c

\* JR cc, r8 (0x20, 0x28, 0x30, 0x38); cp is the Cpu before the fetch
JrCc(cp, b, ins) ==
    IF CondTrue(cp, ins[1])
    THEN [cpu |-> [cp EXCEPT !.pc = W16(@ + 2 + W16(65536 + Signed8(ins[2])))],
          bus |-> b, cycles |-> 12]
    ELSE [cpu |-> [cp EXCEPT !.pc = W16(@ + 2)], bus |-> b, cycles |-> 8]

\* JP cc, a16 (0xC2, 0xCA, 0xD2, 0xDA)
JpCc(cp, b, ins) ==
    IF CondTrue(cp, ins[1])
    THEN [cpu |-> [cp EXCEPT !.pc = ins[3] * 256 + ins[2]], bus |-> b, cycles |-> 16]
    ELSE [cpu |-> [cp EXCEPT !.pc = W16(@ + 3)], bus |-> b, cycles |-> 12]

\* CALL cc, a16 (0xC4, 0xCC, 0xD4, 0xDC)
CallCc(cp, b, ins) ==
    LET Called(s) == [cpu |-> [s.cpu EXCEPT !.pc = ins[3] * 256 + ins[2]],
                      bus |-> s.bus, cycles |-> 24]
    IN  IF CondTrue(cp, ins[1])
        THEN Called(Push16([cpu |-> [cp EXCEPT !.pc = W16(@ + 3)], bus |-> b],
                           W16(cp.pc + 3)))
        ELSE [cpu |-> [cp EXCEPT !.pc = W16(@ + 3)], bus |-> b, cycles |-> 12]

\* RET cc charging the taken cycles either way
RetCcFlat(cp, b, ins) ==
    LET Returned(s) == [cpu |-> [s.cpu EXCEPT !.pc = s.v], bus |-> s.bus, cycles |-> 20]
    IN  IF CondTrue(cp, ins[1])
        THEN Returned(Pop16([cpu |-> [cp EXCEPT !.pc = W16(@ + 1)], bus |-> b]))
        ELSE [cpu |-> [cp EXCEPT !.pc = W16(@ + 1)], bus |-> b, cycles |-> 20]

\* RET cc (0xC0, 0xC8, 0xD0, 0xD8)
RetCc(cp, b, ins) ==
    LET Returned(s) == [cpu |-> [s.cpu EXCEPT !.pc = s.v], bus |-> s.bus, cycles |-> 20]
    IN  IF CondTrue(cp, ins[1])
        THEN Returned(Pop16([cpu |-> [cp EXCEPT !.pc = W16(@ + 1)], bus |-> b]))
        ELSE [cpu |-> [cp EXCEPT !.pc = W16(@ + 1)], bus |-> b, cycles |-> 8]

\* inc8: the flags in cpu, the incremented byte in res
Inc8(cp, v) ==
    [cpu |-> [cp EXCEPT !.f.z = (W8(v + 1) = 0), !.f.n = FALSE,
                        !.f.h = (And8(v, \h0F) = \h0F)],
     res |-> W8(v + 1)]

\* dec8 borrowing into the carry
Dec8Borrows(cp, v) ==
    [cpu |-> [cp EXCEPT !.f.z = (W8(v + 255) = 0), !.f.n = TRUE,
                        !.f.h = (And8(v, \h0F) = 0), !.f.c = (v = 0)],
     res |-> W8(v + 255)]

\* dec8: the flags in cpu, the decremented byte in res
Dec8(cp, v) ==
    [cpu |-> [cp EXCEPT !.f.z = (W8(v + 255) = 0), !.f.n = TRUE,
                        !.f.h = (And8(v, \h0F) = 0)],
     res |-> W8(v + 255)]

SetBC(cp, v) == [cp EXCEPT !.b = v \div 256, !.c = v % 256]

SetDE(cp, v) == [cp EXCEPT !.d = v \div 256, !.e = v % 256]

SetHL(cp, v) == [cp EXCEPT !.h = v \div 256, !.l = v % 256]

\* The register pair that bits 4-5 of an opcode select: BC, DE, HL, SP
GetPair(cp, op) ==
    CASE (op \div 16) % 4 = 0 -> BC(cp)
      [] (op \div 16) % 4 = 1 -> DE(cp)
      [] (op \div 16) % 4 = 2 -> HL(cp)
      [] (op \div 16) % 4 = 3 -> cp.sp

SetPair(cp, op, v) ==
    CASE (op \div 16) % 4 = 0 -> SetBC(cp, v)
      [] (op \div 16) % 4 = 1 -> SetDE(cp, v)
      [] (op \div 16) % 4 = 2 -> SetHL(cp, v)
      [] (op \div 16) % 4 = 3 -> [cp EXCEPT !.sp = v]

\* ADD HL,rr (0x09, 0x19, 0x29, 0x39)
AddHl(cp, rr) ==
    LET hl == HL(cp)
    IN  SetHL([cp EXCEPT !.f.n = FALSE,
                         !.f.h = ((hl % 4096) + (rr % 4096) > \h0FFF),
                         !.f.c = (hl > \hFFFF - rr)],
              W16(hl + rr))

\* LD HL,SP+r8 (0xF8): n is the operand byte, sign-extended to 16 bits
LdHlSp(cp, n) ==
    LET n16 == IF n >= 128 THEN \hFF00 + n ELSE n
    IN  SetHL([cp EXCEPT !.f.z = FALSE, !.f.n = FALSE,
                         !.f.h = ((cp.sp % 16) + (n16 % 16) > \h0F),
                         !.f.c = ((cp.sp % 256) + (n16 % 256) > \hFF)],
              W16(cp.sp + n16))

\* LD r,r' (0x40..0x7F except 0x76)
LdRR(cp, b, op) ==
    LET dst == (op \div 8) % 8
        src == op % 8
        val == IF src = 6 THEN Read8(b, HL(cp)) ELSE GetReg(cp, src)
        cyc == 4 + (IF src = 6 \/ dst = 6 THEN 4 ELSE 0)
    IN  IF dst = 6
        THEN [cpu |-> cp, bus |-> Write8(b, HL(cp), val), cycles |-> cyc]
        ELSE [cpu |-> SetReg(cp, dst, val), bus |-> b, cycles |-> cyc]

\* DAA leaving the half carry as it was
DaaKeepsHalf(cp) ==
    LET a1 == IF cp.f.h \/ cp.a % 16 > 9 THEN cp.a + 6 ELSE cp.a
        a2 == IF cp.f.c \/ a1 > \h9F THEN a1 + \h60 ELSE a1
        s1 == IF cp.f.h THEN (cp.a + 250) % 256 ELSE cp.a
        s2 == IF cp.f.c THEN s1 - \h60 ELSE s1
        res == IF cp.f.n THEN (s2 + 256) % 256 ELSE a2 % 256
    IN  [cp EXCEPT !.a = res, !.f.z = (res = 0),
                   !.f.c = (IF cp.f.n THEN cp.f.c ELSE cp.f.c \/ a1 > \h9F)]

\* DAA (0x27): a is widened to i16; after an addition (N clear) 0x06 is added
\* on H or a low nibble above 9, then 0x60 on C or a value above 0x9F, which
\* sets C; after a subtraction 0x06 is taken off on H and 0x60 on C
Daa(cp) ==
    LET a1 == IF cp.f.h \/ cp.a % 16 > 9 THEN cp.a + 6 ELSE cp.a
        a2 == IF cp.f.c \/ a1 > \h9F THEN a1 + \h60 ELSE a1
        s1 == IF cp.f.h THEN (cp.a + 250) % 256 ELSE cp.a
        s2 == IF cp.f.c THEN s1 - \h60 ELSE s1
        res == IF cp.f.n THEN (s2 + 256) % 256 ELSE a2 % 256
    IN  [cp EXCEPT !.a = res, !.f.z = (res = 0), !.f.h = FALSE,
                   !.f.c = (IF cp.f.n THEN cp.f.c ELSE cp.f.c \/ a1 > \h9F)]

\* The opcodes that no arm of the match names: they reach the default arm
UndefinedOps ==
    {\hD3, \hDB, \hDD, \hE3, \hE4, \hEB, \hEC, \hED, \hF4, \hFC, \hFD}

\* The opcode match of Cpu::step. ins = <<op, lo, hi>>: the bytes the fetches
\* return at pc, pc + 1 and pc + 2 (the last two are read only by the
\* instructions that have operands).
Exec(cp, b, ins) ==
    LET op  == ins[1]
        n   == ins[2]
        nn  == ins[3] * 256 + ins[2]
        cp1 == [cp EXCEPT !.pc = W16(@ + 1)]
        cp2 == [cp EXCEPT !.pc = W16(@ + 2)]
        cp3 == [cp EXCEPT !.pc = W16(@ + 3)]
        R(xcpu, xbus, cyc) == [cpu |-> xcpu, bus |-> xbus, cycles |-> cyc]
        Pushed(s, cyc) == R(s.cpu, s.bus, cyc)
    IN  CASE op = \h00 -> R(cp1, b, 4)
          \* the default arm panics: no cycle count is returned
          [] op \in UndefinedOps -> R(cp1, b, 0)
          [] op \in {\h20, \h28, \h30, \h38} -> JrCc(cp, b, ins)
          [] op \in {\hC2, \hCA, \hD2, \hDA} -> JpCc(cp, b, ins)
          [] op \in {\hC4, \hCC, \hD4, \hDC} -> CallCc(cp, b, ins)
          [] op \in {\hC0, \hC8, \hD0, \hD8} -> RetCc(cp, b, ins)
          [] op = \h27 -> R(Daa(cp1), b, 4)
          [] op = \h31 -> R([cp3 EXCEPT !.sp = nn], b, 12)
          [] op = \h37 -> R([cp1 EXCEPT !.f.c = TRUE, !.f.n = FALSE, !.f.h = FALSE], b, 4)
          [] op = \h3C ->
               LET v == cp.a
                   res == W8(v + 1)
               IN  R([cp1 EXCEPT !.f.z = (res = 0), !.f.n = FALSE,
                                 !.f.h = (And8(v, \h0F) = \h0F), !.a = res], b, 4)
          [] op = \h3E -> R([cp2 EXCEPT !.a = n], b, 8)
          [] op = \h76 -> R([cp1 EXCEPT !.halted = TRUE], b, 4)
          [] op >= \h80 /\ op <= \h87 ->
               LET v == IF op = \h86 THEN Read8(b, HL(cp)) ELSE GetReg(cp, op % 8)
               IN  R(AddA(cp1, v), b, 4 + (IF op = \h86 THEN 4 ELSE 0))
          [] op >= \h88 /\ op <= \h8F ->
               LET v == IF op = \h8E THEN Read8(b, HL(cp)) ELSE GetReg(cp, op % 8)
               IN  R(AdcA(cp1, v), b, 4 + (IF op = \h8E THEN 4 ELSE 0))
          [] op >= \h90 /\ op <= \h97 ->
               LET v == IF op = \h96 THEN Read8(b, HL(cp)) ELSE GetReg(cp, op % 8)
               IN  R(SubA(cp1, v), b, 4 + (IF op = \h96 THEN 4 ELSE 0))
          [] op >= \h98 /\ op <= \h9F ->
               LET v == IF op = \h9E THEN Read8(b, HL(cp)) ELSE GetReg(cp, op % 8)
               IN  R(SbcA(cp1, v), b, 4 + (IF op = \h9E THEN 4 ELSE 0))
          [] op >= \hA8 /\ op <= \hAF ->
               LET v == IF op = \hAE THEN Read8(b, HL(cp)) ELSE GetReg(cp, op % 8)
               IN  R(XorA(cp1, v), b, 4 + (IF op = \hAE THEN 4 ELSE 0))
          [] op >= \hB8 /\ op <= \hBF ->
               LET v == IF op = \hBE THEN Read8(b, HL(cp)) ELSE GetReg(cp, op % 8)
               IN  R(CpA(cp1, v), b, 4 + (IF op = \hBE THEN 4 ELSE 0))
          [] op = \hC1 ->
               LET PopBc(s) == R([s.cpu EXCEPT !.b = s.v \div 256, !.c = s.v % 256],
                                 s.bus, 12)
               IN  PopBc(Pop16([cpu |-> cp1, bus |-> b]))
          [] op = \hCB -> CbOp(cp2, b, n)
          [] op = \hC5 ->
               Pushed(Push16([cpu |-> cp1, bus |-> b], BC(cp1)), 16)
          [] op = \hC6 -> R(AddA(cp2, n), b, 8)
          [] op = \hCE -> R(AdcA(cp2, n), b, 8)
          [] op = \hD1 ->
               LET PopDe(s) == R([s.cpu EXCEPT !.d = s.v \div 256, !.e = s.v % 256],
                                 s.bus, 12)
               IN  PopDe(Pop16([cpu |-> cp1, bus |-> b]))
          [] op = \hD5 ->
               Pushed(Push16([cpu |-> cp1, bus |-> b], DE(cp1)), 16)
          [] op = \hD6 -> R(SubA(cp2, n), b, 8)
          [] op = \hDE -> R(SbcA(cp2, n), b, 8)
          [] op = \hD9 ->
               LET Reti(s) == R([s.cpu EXCEPT !.ime = TRUE, !.pc = s.v], s.bus, 16)
               IN  Reti(Pop16([cpu |-> cp1, bus |-> b]))
          [] op = \hE1 ->
               LET PopHl(s) == R([s.cpu EXCEPT !.h = s.v \div 256, !.l = s.v % 256],
                                 s.bus, 12)
               IN  PopHl(Pop16([cpu |-> cp1, bus |-> b]))
          [] op = \hE5 ->
               Pushed(Push16([cpu |-> cp1, bus |-> b], HL(cp1)), 16)
          [] op = \hE0 -> R(cp2, Write8(b, \hFF00 + n, cp.a), 12)
          [] op = \hF1 ->
               LET PopAf(s) == R([s.cpu EXCEPT !.a = s.v \div 256,
                                               !.f = FromByte(And8(s.v % 256, \hF0))],
                                 s.bus, 12)
               IN  PopAf(Pop16([cpu |-> cp1, bus |-> b]))
          [] op = \hF3 -> R([cp1 EXCEPT !.ime = FALSE], b, 4)
          [] op = \hF5 ->
               Pushed(Push16([cpu |-> cp1, bus |-> b], cp1.a * 256 + ToByte(cp1.f)), 16)
          [] op = \hFB -> R([cp1 EXCEPT !.ime = TRUE], b, 4)
          \* INC r; 0x0C and 0x2C spell out the body of inc8
          [] op \in {\h04, \h0C, \h14, \h1C, \h24, \h2C} ->
               LET Put(t) == R(SetReg(t.cpu, (op \div 8) % 8, t.res), b, 4)
               IN  Put(Inc8(cp1, GetReg(cp1, (op \div 8) % 8)))
          \* DEC r; 0x0D spells out the body of dec8
          [] op \in {\h05, \h0D, \h15, \h1D, \h25, \h2D, \h3D} ->
               LET Put(t) == R(SetReg(t.cpu, (op \div 8) % 8, t.res), b, 4)
               IN  Put(Dec8(cp1, GetReg(cp1, (op \div 8) % 8)))
          [] op = \h34 ->
               LET Put(t) == R(t.cpu, Write8(b, HL(cp1), t.res), 12)
               IN  Put(Inc8(cp1, Read8(b, HL(cp1))))
          [] op = \h35 ->
               LET Put(t) == R(t.cpu, Write8(b, HL(cp1), t.res), 12)
               IN  Put(Dec8(cp1, Read8(b, HL(cp1))))
          [] op \in {\h03, \h13, \h23, \h33} ->
               R(SetPair(cp1, op, W16(GetPair(cp1, op) + 1)), b, 8)
          [] op \in {\h0B, \h1B, \h2B, \h3B} ->
               R(SetPair(cp1, op, W16(GetPair(cp1, op) + 65535)), b, 8)
          [] op \in {\h09, \h19, \h29, \h39} -> R(AddHl(cp1, GetPair(cp1, op)), b, 8)
          [] op \in {\h01, \h11, \h21} -> R(SetPair(cp3, op, nn), b, 12)
          [] op = \h02 -> R(cp1, Write8(b, BC(cp1), cp1.a), 8)
          [] op = \h12 -> R(cp1, Write8(b, DE(cp1), cp1.a), 8)
          [] op = \h0A -> R([cp1 EXCEPT !.a = Read8(b, BC(cp1))], b, 8)
          [] op = \h1A -> R([cp1 EXCEPT !.a = Read8(b, DE(cp1))], b, 8)
          [] op = \h22 -> R(SetHL(cp1, W16(HL(cp1) + 1)), Write8(b, HL(cp1), cp1.a), 8)
          [] op = \h32 -> R(SetHL(cp1, W16(HL(cp1) + 65535)), Write8(b, HL(cp1), cp1.a), 8)
          [] op = \h2A ->
               R(SetHL([cp1 EXCEPT !.a = Read8(b, HL(cp1))], W16(HL(cp1) + 1)), b, 8)
          [] op = \h3A ->
               R(SetHL([cp1 EXCEPT !.a = Read8(b, HL(cp1))], W16(HL(cp1) + 65535)), b, 8)
          [] op \in {\h06, \h0E, \h16, \h1E, \h26, \h2E} ->
               R(SetReg(cp2, (op \div 8) % 8, n), b, 8)
          [] op = \h36 -> R(cp2, Write8(b, HL(cp2), n), 12)
          [] op = \h08 ->
               R(cp3, Write8(Write8(b, nn, cp.sp % 256), W16(nn + 1), cp.sp \div 256), 20)
          [] op >= \h40 /\ op <= \h7F /\ op # \h76 -> LdRR(cp1, b, op)
          [] op = \hE2 -> R(cp1, Write8(b, \hFF00 + cp1.c, cp1.a), 8)
          [] op = \hEA -> R(cp3, Write8(b, nn, cp.a), 16)
          [] op = \hF0 -> R([cp2 EXCEPT !.a = Read8(b, \hFF00 + n)], b, 12)
          [] op = \hF2 -> R([cp1 EXCEPT !.a = Read8(b, \hFF00 + cp1.c)], b, 8)
          [] op = \hF8 -> R(LdHlSp(cp2, n), b, 12)
          [] op = \hF9 -> R([cp1 EXCEPT !.sp = HL(cp1)], b, 8)
          [] op = \hFA -> R([cp3 EXCEPT !.a = Read8(b, nn)], b, 16)
          [] op = \hFE ->
               LET v == n
                   res == W8(cp.a + 256 - v)
               IN  R([cp2 EXCEPT !.f.z = (res = 0), !.f.n = TRUE,
                                 !.f.h = (And8(cp.a, \h0F) < And8(v, \h0F)),
                                 !.f.c = (cp.a < v)], b, 8)

\* The interrupt dispatch of Cpu::step, taken when pend # 0 and IME is set
DispatchClearsAll(cp, b, pend) ==
    LET Vector(s, bit) ==
            [cpu |-> [s.cpu EXCEPT !.pc = \h40 + bit * 8], bus |-> s.bus,
             cycles |-> IrqCycles, pending |-> pend, fetched |-> FALSE,
             disp |-> bit, opc |-> -1]
        Serve(bit) ==
            Vector(Push16([cpu |-> [cp EXCEPT !.halted = FALSE, !.ime = FALSE],
                           bus |-> [b EXCEPT !.iflag = And8(@, Not8(pend))]], cp.pc), bit)
    IN  Serve(TrailingZeros(pend))

Dispatch(cp, b, pend) ==
    LET Vector(s, bit) ==
            [cpu |-> [s.cpu EXCEPT !.pc = \h40 + bit * 8], bus |-> s.bus,
             cycles |-> IrqCycles, pending |-> pend, fetched |-> FALSE,
             disp |-> bit, opc |-> -1]
        Serve(bit) ==
            Vector(Push16([cpu |-> [cp EXCEPT !.halted = FALSE, !.ime = FALSE],
                           bus |-> [b EXCEPT !.iflag = And8(@, Not8(Pow2(bit)))]], cp.pc), bit)
    IN  Serve(TrailingZeros(pend))

\* Cpu::step: [cpu, bus, cycles, pending, fetched, disp, opc]
WakeNever(cp, pend) == cp

\* A pending interrupt with IME clear ends HALT
Wake(cp, pend) == IF pend # 0 /\ cp.halted THEN [cp EXCEPT !.halted = FALSE] ELSE cp

CpuStep(cp, b, ins) ==
    LET Ran(r, pend) ==
            [cpu |-> r.cpu, bus |-> r.bus, cycles |-> r.cycles,
             pending |-> pend, fetched |-> TRUE, disp |-> -1, opc |-> ins[1]]
        Step(pend) ==
            IF pend # 0 /\ cp.ime
            THEN Dispatch(cp, b, pend)
            ELSE LET cp1 == Wake(cp, pend)
                 IN  IF cp1.halted
                     THEN [cpu |-> cp1, bus |-> b, cycles |-> HaltCycles,
                           pending |-> pend, fetched |-> FALSE, disp |-> -1, opc |-> -1]
                     ELSE Ran(Exec(cp1, b, ins), pend)
    IN  Step(And8(b.ie, b.iflag))

\* Whether the cpu.step with result r ended in the panic! of the default arm
Panics(r) == r.fetched /\ r.opc \in UndefinedOps

----------------------------------------------------------------------------
(* Emulator: Emulator::new and the loop of run_frame *)

\* The run_frame cycle count up to which the frame loop is explored
CycleCap == 72

\* The instructions of the cartridge's program: interrupt control
IrqInstrs ==
    {<<\h00, 0, 0>>,                          \* NOP
     <<\h31, \h10, \hFF>>, <<\h31, \h11, \hFF>>,   \* LD SP, 0xFF10 / 0xFF11
     <<\h3E, \h47, 0>>,                       \* LD A, 0x47
     <<\h76, 0, 0>>,                          \* HALT
     <<\hD9, 0, 0>>,                          \* RETI
     <<\hE0, \h0F, 0>>, <<\hE0, \h41, 0>>, <<\hE0, \hFF, 0>>,   \* LDH (a8), A
     <<\hF3, 0, 0>>,                          \* DI
     <<\hFB, 0, 0>>}                          \* EI

BlankCart == [rom |-> EmptyMem, len |-> RomLen]

InCart(addr) == addr <= \h7FFF

Init ==
    /\ cpu = CpuNew
    /\ bus = BusNew(BlankCart)
    /\ rf = "cpu"
    /\ c = 0
    /\ cycles = 0
    /\ pending = 0
    /\ fetched = FALSE
    /\ disp = -1
    /\ opc = -1
    /\ vblank = FALSE
    /\ stat_irq = FALSE
    /\ rendered = 0
    /\ last = "new"
    /\ total = 0
    /\ frames = 0
    /\ vblanks = 0
    /\ saved = cpu

\* One cpu.step of run_frame's loop. The instruction bytes are its inputs: the
\* program counter stands in the cartridge, whose bytes are any of instrs, and
\* the stack, whose reads are data, stands outside it.
RunFrameCpu(instrs) ==
    /\ rf = "cpu"
    /\ cycles < FrameCycles
    /\ cycles < CycleCap
    /\ InCart(cpu.pc) /\ InCart(W16(cpu.pc + 2))
    /\ ~InCart(cpu.sp) /\ ~InCart(W16(cpu.sp + 1))
    /\ \E ins \in instrs : \E r \in {CpuStep(cpu, bus, ins)} :
             /\ cpu' = r.cpu
             /\ bus' = r.bus
             /\ c' = (IF Panics(r) THEN c ELSE r.cycles)
             /\ pending' = r.pending
             /\ fetched' = r.fetched
             /\ disp' = r.disp
             /\ opc' = r.opc
             \* a panic unwinds out of run_frame
             /\ rf' = (IF Panics(r) THEN "unwound" ELSE "bus")
             /\ last' = (IF Panics(r) THEN "panic" ELSE "cpu")
    /\ UNCHANGED <<cycles, vblank, stat_irq, rendered, total, frames, vblanks, saved>>

\* A call bus.step(cyc), with what it returns to the observer
BusDoStep(cyc) ==
    \E r \in {BusStepR(bus, cyc)} :
        /\ bus' = r.bus
        /\ vblank' = r.vblank
        /\ stat_irq' = r.stat_irq
        /\ rendered' = r.rendered
        /\ total' = total + cyc
        /\ frames' = frames + r.rendered
        /\ vblanks' = vblanks + (IF r.vblank THEN 1 ELSE 0)
        /\ last' = "step"

\* The bus.step(c) and cycles += c of run_frame's loop
RunFrameBus(cyc) ==
    /\ rf = "bus"
    /\ BusDoStep(cyc)
    /\ cycles' = cycles + c
    /\ rf' = "cpu"
    /\ UNCHANGED <<cpu, c, pending, fetched, disp, opc, saved>>

RunFrameCpuStep == RunFrameCpu(IrqInstrs)

RunFrameBusStepFixed == RunFrameBus(HaltCycles)

RunFrameBusStep == RunFrameBus(c)

Next == RunFrameCpuStep \/ RunFrameBusStep

Spec == Init /\ [][Next]_vars

----------------------------------------------------------------------------
(* Interrupts and the frame loop *)

IsRam(addr) == (addr >= \hC000 /\ addr <= \hFDFF) \/ (addr >= \hFF80 /\ addr <= \hFFFE)

\* C1: every iteration of run_frame is one cpu.step followed by one bus.step
\* that is passed the cycle count cpu.step returned (the bus clock div moves by
\* 4 * c and run_frame's count by c, the Cpu is untouched); the flags that
\* bus.step raised are set in iflag when the next cpu.step starts, that step
\* computes pending from them, and it fetches nothing when one of them is
\* enabled with IME set.
RunFrameOrder ==
    /\ [](rf = "cpu" /\ last = "step" =>
            /\ vblank => Bit(bus.iflag, 0) = 1
            /\ stat_irq => Bit(bus.iflag, 1) = 1)
    /\ [][/\ rf = "cpu" =>
               /\ rf' = "bus"
               /\ cycles' = cycles
               /\ bus'.div = bus.div
               /\ pending' = And8(bus.ie, bus.iflag)
               /\ (pending' # 0 /\ cpu.ime) => ~fetched' /\ c' = IrqCycles
          /\ rf = "bus" =>
               /\ rf' = "cpu"
               /\ cpu' = cpu
               /\ c' = c
               /\ cycles' = cycles + c
               /\ bus'.div = W16(bus.div + 4 * c)]_vars

\* C1 witness: the cpu.step after a bus.step that raised STAT dispatched it
RunFrameOrderWitness ==
    last = "cpu" /\ stat_irq /\ disp = 1 /\ ~fetched

\* cpu.step is taken from a state with an enabled interrupt pending and IME set
DispatchCase == rf = "cpu" /\ rf' = "bus" /\ And8(bus.ie, bus.iflag) # 0 /\ cpu.ime

\* What C2 says of everything but iflag
DispatchEffects ==
    LET bit == TrailingZeros(And8(bus.ie, bus.iflag))
    IN  /\ ~fetched'
        /\ opc' = -1
        /\ ~cpu'.halted
        /\ ~cpu'.ime
        /\ cpu'.sp = W16(cpu.sp + 65534)
        /\ IsRam(cpu'.sp) /\ IsRam(W16(cpu'.sp + 1)) =>
              /\ Read8(bus', cpu'.sp) = cpu.pc % 256
              /\ Read8(bus', W16(cpu'.sp + 1)) = cpu.pc \div 256
        /\ cpu'.pc = \h40 + 8 * bit
        /\ c' = IrqCycles
        /\ [cpu' EXCEPT !.pc = 0, !.sp = 0, !.ime = FALSE, !.halted = FALSE]
             = [cpu EXCEPT !.pc = 0, !.sp = 0, !.ime = FALSE, !.halted = FALSE]

\* C2 as stated: a cpu.step that starts with (ie & iflag) # 0 and IME set
\* fetches nothing, clears HALT and IME, pushes PC, jumps to 0x40 + 8 * b and
\* returns 20, and iflag ends as it was with only bit b cleared.
DispatchAsStated ==
    [][DispatchCase =>
         /\ DispatchEffects
         /\ bus'.iflag = And8(bus.iflag, Not8(Pow2(TrailingZeros(And8(bus.ie, bus.iflag)))))
      ]_vars

\* C2 amended: as stated, except that when one of the two stack bytes is
\* 0xFF0F the push of PC overwrites iflag with that byte of PC.
DispatchAmended ==
    [][DispatchCase =>
         /\ DispatchEffects
         /\ bus'.iflag =
              IF W16(cpu.sp + 65534) = \hFF0F THEN cpu.pc % 256
              ELSE IF W16(cpu.sp + 65535) = \hFF0F THEN cpu.pc \div 256
              ELSE And8(bus.iflag, Not8(Pow2(TrailingZeros(And8(bus.ie, bus.iflag)))))
      ]_vars

\* C2 witness: a dispatch from a state with more than one enabled interrupt
\* pending, the others still set afterwards
DispatchWitness ==
    /\ last = "cpu" /\ disp = 0 /\ pending = \h47
    /\ bus.iflag = \h46 /\ cpu.pc = \h40 /\ ~cpu.ime

\* C3 as stated: when the handler's first instruction is fetched, after the
\* bus.step that follows the dispatch of bit b, bit b of iflag is still 0
\* (stacks on 0xFF0F, where the push itself rewrites iflag, set aside).
ServicedBitStaysClear ==
    (rf = "cpu" /\ last = "step" /\ disp # -1
       /\ cpu.sp # \hFF0F /\ W16(cpu.sp + 1) # \hFF0F)
    => Bit(bus.iflag, disp) = 0

----------------------------------------------------------------------------
(* The Bus driven through step and write8 *)

\* The cycle counts passed to Bus::step
StepCycles == {76, 152}

\* The bus.step cycles up to which the Bus is explored: four scanlines
BusCycleCap == 1824

\* The (addr, v) pairs passed to Bus::write8
BusWrites ==
    {<<\hFF40, \h11>>, <<\hFF40, \h91>>,      \* LCDC: LCD off, LCD on
     <<\hFF41, \h40>>, <<\hFF41, \h48>>,      \* STAT: LYC source, LYC and HBlank sources
     <<\hFF45, 2>>,                           \* LYC
     <<\hFF44, \h55>>,                        \* LY
     <<\hFF0F, \h00>>}                        \* iflag cleared

BusDoWrite(addr, v) ==
    /\ bus' = Write8(bus, addr, v)
    /\ last' = "write"
    /\ UNCHANGED <<vblank, stat_irq, rendered, c>>

BusStepOp ==
    /\ total < BusCycleCap
    /\ \E cyc \in StepCycles : BusDoStep(cyc) /\ c' = cyc
    /\ UNCHANGED <<cpu, rf, cycles, pending, fetched, disp, opc, saved>>

BusWriteOp ==
    /\ \E w \in BusWrites : BusDoWrite(w[1], w[2])
    /\ UNCHANGED <<cpu, rf, cycles, pending, fetched, disp, opc, total, frames, vblanks, saved>>

NextBus == BusStepOp \/ BusWriteOp

SpecBus == Init /\ [][NextBus]_vars

----------------------------------------------------------------------------
(* The Ppu driven through step and its registers *)

PpuCycles == {24, 240}

PpuWrites ==
    {<<\hFF40, \h11>>, <<\hFF40, \h91>>,      \* LCDC: LCD off, LCD on
     <<\hFF44, \h55>>}                        \* LY

\* A call ppu.step(cyc, vram), as Bus::step makes it
PpuStepOp ==
    /\ \E cyc \in PpuCycles : \E r \in {PpuStep(bus.ppu, cyc, bus.vram)} :
             /\ bus' = [bus EXCEPT !.ppu = r.ppu]
             /\ vblank' = r.vblank
             /\ stat_irq' = r.stat_irq
             /\ rendered' = r.rendered
             /\ c' = cyc
    /\ last' = "step"
    /\ UNCHANGED <<cpu, rf, cycles, pending, fetched, disp, opc, total, frames, vblanks, saved>>

PpuWriteOp ==
    /\ \E w \in PpuWrites : BusDoWrite(w[1], w[2])
    /\ UNCHANGED <<cpu, rf, cycles, pending, fetched, disp, opc, total, frames, vblanks, saved>>

NextPpu == PpuStepOp \/ PpuWriteOp

SpecPpu == Init /\ [][NextPpu]_vars

----------------------------------------------------------------------------
(* The Bus stepped through a whole frame *)

ScanCycles == {4, 8, 12, 16, 20, 24}

\* The bus.step cycles up to which the frame is explored: a frame and a scanline
ScanCycleCap == 70680

ScanStepOp ==
    /\ total < ScanCycleCap
    /\ \E cyc \in ScanCycles : BusDoStep(cyc) /\ c' = cyc
    /\ UNCHANGED <<cpu, rf, cycles, pending, fetched, disp, opc, saved>>

\* The program acknowledges the interrupts: iflag = 0
ScanAckOp ==
    /\ bus.iflag # 0
    /\ BusDoWrite(\hFF0F, 0)
    /\ UNCHANGED <<cpu, rf, cycles, pending, fetched, disp, opc, total, frames, vblanks, saved>>

NextScan == ScanStepOp \/ ScanAckOp

SpecScan == Init /\ [][NextScan]_vars

----------------------------------------------------------------------------
(* The frame loop over the stack and flag instructions *)

AfInstrs ==
    {<<\h37, 0, 0>>,      \* SCF
     <<\h3C, 0, 0>>,      \* INC A
     <<\hAF, 0, 0>>,      \* XOR A
     <<\hC5, 0, 0>>,      \* PUSH BC
     <<\hF1, 0, 0>>,      \* POP AF
     <<\hF5, 0, 0>>}      \* PUSH AF

AfCpuStep == RunFrameCpu(AfInstrs)

NextAf == AfCpuStep \/ RunFrameBusStep

SpecAf == Init /\ [][NextAf]_vars

----------------------------------------------------------------------------
(* The Ppu's lines, modes and interrupts *)

IsBusStep == total' # total

\* C4 as stated: the LYC match raises STAT once. A bus.step that finds LY where
\* the last bus.step left it, equal to LYC, with the LYC source the only one
\* enabled, after the last bus.step raised STAT and the program cleared iflag
\* bit 1, does not set iflag bit 1 again.
LycMatchRaisedOnce ==
    [][(/\ IsBusStep
        /\ Bit(bus.ppu.lcdc, 7) = 1
        /\ bus.ppu.ly = bus.ppu.lyc /\ bus.ppu.ly # 0
        /\ bus'.ppu.ly = bus.ppu.ly
        /\ And8(bus.ppu.stat, \h78) = \h40
        /\ Bit(bus.ppu.stat, 2) = 1
        /\ stat_irq
        /\ Bit(bus.iflag, 1) = 0)
       => Bit(bus'.iflag, 1) = 0]_vars

\* C5: LY is in 0..153 in every reachable state
LyInRange == bus.ppu.ly \in 0..(LinesPerFrame - 1)

\* C5 witness: a step took LY from 153 back to 0
LyInRangeWitness == last = "step" /\ rendered = 1 /\ bus.ppu.ly = 0

\* C6: with the LCD enabled and LY never written, LY * 456 + cycle_acc is the
\* sum of the cycles passed to bus.step modulo 70224, however they were split,
\* cycle_acc stays below 456, and the frame has been rendered once per 70224
\* cycles; so after exactly 70224 cycles LY and cycle_acc are back at their
\* start and the frame was rendered once.
ScanlineClock ==
    /\ bus.ppu.cycle_acc < ScanlineCycles
    /\ bus.ppu.ly * ScanlineCycles + bus.ppu.cycle_acc = total % FrameCycles
    /\ frames = total \div FrameCycles

\* C6 witness: exactly one frame of cycles has been stepped
ScanlineClockWitness ==
    total = FrameCycles /\ bus.ppu.ly = 0 /\ bus.ppu.cycle_acc = 0 /\ frames = 1

\* C7: a bus.step taken with LCDC bit 7 clear leaves LY = 0, mode 0 and every
\* framebuffer byte 0xFF, and sets neither iflag bit 0 nor iflag bit 1.
LcdOffStep ==
    [][(IsBusStep /\ Bit(bus.ppu.lcdc, 7) = 0) =>
         /\ bus'.ppu.ly = 0
         /\ bus'.ppu.mode = 0
         /\ \A px \in SamplePixels : \A k \in 1..4 : bus'.ppu.fb[px][k] = \hFF
         /\ Bit(bus'.iflag, 0) = Bit(bus.iflag, 0)
         /\ Bit(bus'.iflag, 1) = Bit(bus.iflag, 1)
         /\ ~vblank' /\ ~stat_irq']_vars

\* C7 witness: a step with the LCD off, LY = LYC and the LYC and HBlank
\* sources enabled, that left iflag bits 0 and 1 clear
LcdOffStepWitness ==
    /\ last = "step" /\ Bit(bus.ppu.lcdc, 7) = 0
    /\ And8(bus.ppu.stat, \h48) = \h48 /\ bus.ppu.ly = bus.ppu.lyc
    /\ And8(bus.iflag, \h03) = 0 /\ total > ScanlineCycles

\* C8 as stated: after every step STAT bits 0-1 are the mode and STAT bit 2 is
\* (LY = LYC)
StatReflectsMode ==
    last = "step" =>
        /\ And8(bus.ppu.stat, \h03) = bus.ppu.mode
        /\ (Bit(bus.ppu.stat, 2) = 1) <=> (bus.ppu.ly = bus.ppu.lyc)

\* C9: with the LCD enabled a bus.step returns vblank, and sets iflag bit 0,
\* exactly when it moves LY to 144, and leaves iflag bit 0 as it was otherwise;
\* over a frame of 154 scanlines that is once.
VBlankAtLine144 ==
    /\ [](vblanks = (total + FrameCycles - VBlankLine * ScanlineCycles) \div FrameCycles)
    /\ [][(IsBusStep /\ Bit(bus.ppu.lcdc, 7) = 1) =>
            /\ vblank' <=> (bus.ppu.ly # VBlankLine /\ bus'.ppu.ly = VBlankLine)
            /\ vblank' => Bit(bus'.iflag, 0) = 1
            /\ ~vblank' => Bit(bus'.iflag, 0) = Bit(bus.iflag, 0)]_vars

\* C9 witness: a whole frame stepped, VBlank raised once, at line 144, and
\* acknowledged since
VBlankAtLine144Witness ==
    total = FrameCycles /\ vblanks = 1 /\ bus.iflag = 0

----------------------------------------------------------------------------
(* The flag register *)

IsCpuStep == rf = "cpu" /\ rf' = "bus"

\* C10: the F byte has a zero low nibble in every state; PUSH AF writes A and
\* that byte to the stack; POP AF takes A from the high byte it pops and the
\* flags from bits 7-4 of the low byte, whatever its bits 3-0 are.
FlagLowNibble ==
    /\ [](ToByte(cpu.f) % 16 = 0)
    /\ [][(IsCpuStep /\ opc' = \hF5 /\ IsRam(cpu'.sp) /\ IsRam(W16(cpu'.sp + 1))) =>
            /\ Read8(bus', cpu'.sp) = ToByte(cpu.f)
            /\ Read8(bus', cpu'.sp) % 16 = 0
            /\ Read8(bus', W16(cpu'.sp + 1)) = cpu.a]_vars
    /\ [][(IsCpuStep /\ opc' = \hF1) =>
            /\ ToByte(cpu'.f) = And8(Read8(bus, cpu.sp), \hF0)
            /\ cpu'.a = Read8(bus, W16(cpu.sp + 1))]_vars

\* C10 witness: POP AF has popped a byte whose low nibble is not zero
FlagLowNibbleWitness ==
    /\ last = "cpu" /\ opc = \hF1
    /\ Read8(bus, W16(cpu.sp + 65534)) % 16 # 0
    /\ ToByte(cpu.f) = And8(Read8(bus, W16(cpu.sp + 65534)), \hF0)

----------------------------------------------------------------------------
(* PUSH rr followed by POP rr, from any registers and stack pointer *)

\* The observers of a newly constructed Emulator
Fresh ==
    /\ rf = "cpu" /\ c = 0 /\ cycles = 0 /\ pending = 0 /\ fetched = FALSE
    /\ disp = -1 /\ opc = -1 /\ vblank = FALSE /\ stat_irq = FALSE
    /\ rendered = 0 /\ last = "new" /\ total = 0 /\ frames = 0 /\ vblanks = 0

\* Register bytes: the high and the low byte of every pair
HighBytes == {\h00, \h8F, \hFF}
LowBytes == {\h00, \h13, \hF0, \hFF}
FlagBytes == {\h00, \h50, \hA0, \hF0}

\* Stack pointers: HRAM, WRAM, echo RAM, VRAM, OAM; external RAM, the
\* cartridge with ie, LCDC with STAT, and BGP with the DMA register
StackPointers ==
    {\hFFFE, \hC002, \hE000, \h8002, \hFEA0, \hA002, \h0001, \hFF42, \hFF48}

PushOps == {\hC5, \hD5, \hE5, \hF5}

\* The POP of the pair that op pushes
PopOf(op) == op - 4

InitStack ==
    /\ \E hi \in HighBytes, lo \in LowBytes, fl \in FlagBytes, sp \in StackPointers :
         cpu = [CpuNew EXCEPT !.a = hi, !.f = FromByte(fl), !.b = hi, !.c = lo,
                              !.d = hi, !.e = lo, !.h = hi, !.l = lo, !.sp = sp]
    /\ bus = BusNew(BlankCart)
    /\ Fresh
    /\ saved = cpu

\* cpu.step with the instruction bytes ins fetched at pc
CpuDoStep(ins) ==
    \E r \in {CpuStep(cpu, bus, ins)} :
        /\ cpu' = r.cpu
        /\ bus' = r.bus
        /\ c' = (IF Panics(r) THEN c ELSE r.cycles)
        /\ pending' = r.pending
        /\ fetched' = r.fetched
        /\ disp' = r.disp
        /\ opc' = r.opc
        /\ last' = (IF Panics(r) THEN "panic" ELSE "cpu")

StackPushOp ==
    /\ last = "new"
    /\ \E op \in PushOps : CpuDoStep(<<op, 0, 0>>)
    /\ UNCHANGED <<rf, cycles, vblank, stat_irq, rendered, total, frames, vblanks, saved>>

StackPopOp ==
    /\ opc \in PushOps
    /\ CpuDoStep(<<PopOf(opc), 0, 0>>)
    /\ UNCHANGED <<rf, cycles, vblank, stat_irq, rendered, total, frames, vblanks, saved>>

NextStack == StackPushOp \/ StackPopOp

SpecStack == InitStack /\ [][NextStack]_vars

\* The addresses at which write8 stores the byte and read8 returns it:
\* VRAM, WRAM and its echo, OAM, HRAM
StoresByte(addr) ==
    \/ addr >= \h8000 /\ addr <= \h9FFF
    \/ addr >= \hC000 /\ addr <= \hFDFF
    \/ addr >= \hFE00 /\ addr <= \hFE9F
    \/ addr >= \hFF80 /\ addr <= \hFFFE

\* The POP that followed the PUSH left the pair, SP and all else but PC as
\* they were, and F with a zero low nibble
PairRestored ==
    /\ cpu.sp = saved.sp
    /\ opc = \hC1 => BC(cpu) = BC(saved)
    /\ opc = \hD1 => DE(cpu) = DE(saved)
    /\ opc = \hE1 => HL(cpu) = HL(saved)
    /\ opc = \hF1 => cpu.a = saved.a /\ cpu.f = saved.f
    /\ ToByte(cpu.f) % 16 = 0
    /\ [cpu EXCEPT !.pc = 0] = [saved EXCEPT !.pc = 0]

PoppedAfterPush == last = "cpu" /\ opc \in {PopOf(op) : op \in PushOps}

\* C11 as stated: PUSH rr immediately followed by POP rr leaves the pair and
\* SP unchanged (for AF: A and the four flags, with F's low nibble zero), for
\* any register values and any SP.
PushPopAnySp == PoppedAfterPush => PairRestored

\* C11 amended: the same, when the two stack bytes SP-1 and SP-2 lie in
\* memory that stores bytes (VRAM, WRAM, echo RAM, OAM or HRAM).
PushPopRestores ==
    (/\ PoppedAfterPush
     /\ StoresByte(W16(saved.sp + 65535))
     /\ StoresByte(W16(saved.sp + 65534))) => PairRestored

\* C11 witness: PUSH AF and POP AF have run on a stack that straddles the end
\* of WRAM's echo, with A, the flags and the stack bytes all non-zero
PushPopWitness ==
    /\ PoppedAfterPush /\ opc = \hF1 /\ saved.sp = \hE000
    /\ cpu.a = \h8F /\ ToByte(cpu.f) = \hA0
    /\ Read8(bus, \hDFFF) = \h8F /\ Read8(bus, \hDFFE) = \hA0

----------------------------------------------------------------------------
(* ADD A,v followed by SUB v, for every A and v *)

Bytes == 0..255

\* A is any byte, and so is v, which register B holds
InitAlu ==
    /\ \E x \in Bytes, v \in Bytes : cpu = [CpuNew EXCEPT !.a = x, !.b = v]
    /\ bus = BusNew(BlankCart)
    /\ Fresh
    /\ saved = cpu

\* ADD A,B or ADD A,d8 with d8 = v
AluAddOp ==
    /\ last = "new"
    /\ \E ins \in {<<\h80, 0, 0>>, <<\hC6, cpu.b, 0>>} : CpuDoStep(ins)
    /\ UNCHANGED <<rf, cycles, vblank, stat_irq, rendered, total, frames, vblanks, saved>>

\* SUB B after ADD A,B, SUB d8 after ADD A,d8
AluSubOp ==
    /\ opc \in {\h80, \hC6}
    /\ CpuDoStep(IF opc = \h80 THEN <<\h90, 0, 0>> ELSE <<\hD6, cpu.b, 0>>)
    /\ UNCHANGED <<rf, cycles, vblank, stat_irq, rendered, total, frames, vblanks, saved>>

NextAlu == AluAddOp \/ AluSubOp

SpecAlu == InitAlu /\ [][NextAlu]_vars

\* C12: after ADD A,v the flags are Z = (res = 0), N = 0,
\* H = (A & 0xF) + (v & 0xF) > 0xF, C = A + v > 0xFF; after the SUB v that
\* follows A is back at its original value and the flags are Z = (res = 0),
\* N = 1, H = (A' & 0xF) < (v & 0xF), C = A' < v on the intermediate A'.
AddSubRestores ==
    LET a0 == saved.a
        v  == saved.b
        a1 == (a0 + v) % 256
    IN  /\ (last = "cpu" /\ opc \in {\h80, \hC6}) =>
              /\ cpu.a = a1
              /\ cpu.f = [z |-> a1 = 0, n |-> FALSE,
                          h |-> (a0 % 16) + (v % 16) > 15, c |-> a0 + v > 255]
        /\ (last = "cpu" /\ opc \in {\h90, \hD6}) =>
              /\ cpu.a = a0
              /\ cpu.f = [z |-> a0 = 0, n |-> TRUE,
                          h |-> (a1 % 16) < (v % 16), c |-> a1 < v]

\* C12 witness: ADD then SUB have run where the ADD carried out of bit 7 and
\* out of bit 3, so the SUB borrows both
AddSubWitness ==
    /\ last = "cpu" /\ opc = \hD6
    /\ saved.a = \hFF /\ saved.b = \h01 /\ cpu.a = \hFF
    /\ cpu.f = [z |-> FALSE, n |-> TRUE, h |-> TRUE, c |-> TRUE]

----------------------------------------------------------------------------
(* The divider and the timer, stepped until div wraps *)

\* The cycle count passed to Bus::step: the largest a u8 holds
TimerCycles == {255}

\* The bus.step cycles up to which the timer is explored: div wraps after 16384
TimerCycleCap == 16830

TimerWrites ==
    {<<\hFF04, \h5A>>,                        \* DIV
     <<\hFF07, \h04>>}                        \* TAC: timer on

TimerStepOp ==
    /\ total < TimerCycleCap
    /\ \E cyc \in TimerCycles : BusDoStep(cyc) /\ c' = cyc
    /\ UNCHANGED <<cpu, rf, cycles, pending, fetched, disp, opc, saved>>

TimerWriteOp ==
    /\ \E w \in TimerWrites : BusDoWrite(w[1], w[2])
    /\ UNCHANGED <<cpu, rf, cycles, pending, fetched, disp, opc, total, frames, vblanks, saved>>

NextTimer == TimerStepOp \/ TimerWriteOp

SpecTimer == Init /\ [][NextTimer]_vars

\* C13: in every state a read of 0xFF04 returns bits 8-15 of div and a write
\* of any value to 0xFF04 leaves div = 0; every bus.step advances div by
\* cycles * 4 modulo 65536, with the timer enabled or not.
DivClock ==
    /\ [](/\ bus.div \in 0..65535
          /\ Read8(bus, \hFF04) = bus.div \div 256
          /\ \A v \in {\h00, \h5A, \hFF} : Write8(bus, \hFF04, v).div = 0)
    /\ [][IsBusStep => bus'.div = (bus.div + 4 * c') % 65536]_vars

\* C13 witness: div has wrapped past 65535 with the timer off
DivClockWitness ==
    /\ last = "step" /\ bus.tac = 0
    /\ total * 4 > 65536 /\ bus.div = (total * 4) % 65536
    /\ Read8(bus, \hFF04) = bus.div \div 256

----------------------------------------------------------------------------
(* The conditional jumps, calls and returns *)

CondOps ==
    {\h20, \h28, \h30, \h38, \hC2, \hCA, \hD2, \hDA,
     \hC4, \hCC, \hD4, \hDC, \hC0, \hC8, \hD0, \hD8}

\* The return address that lies on the stack
ReturnAddress == \h4321

\* The bus after the program has put ReturnAddress on the stack at sp
BranchBus(sp) ==
    Write8(Write8(BusNew(BlankCart), W16(sp + 1), ReturnAddress \div 256),
           sp, ReturnAddress % 256)

\* Any Z and C; the operand bytes of the instruction stand in E (low) and D
\* (high); the stack in HRAM or WRAM
InitBranch ==
    /\ \E z \in BOOLEAN, cy \in BOOLEAN, lo \in {\h05, \h80, \hFB}, hi \in {\h12, \h80},
          sp \in {\hFFFC, \hC002} :
         /\ cpu = [CpuNew EXCEPT !.f.z = z, !.f.c = cy, !.e = lo, !.d = hi, !.sp = sp]
         /\ bus = BranchBus(sp)
    /\ Fresh
    /\ saved = cpu

BranchOp ==
    /\ last = "new"
    /\ \E op \in CondOps : CpuDoStep(<<op, cpu.e, cpu.d>>)
    /\ UNCHANGED <<rf, cycles, vblank, stat_irq, rendered, total, frames, vblanks, saved>>

\* The instruction at the target of the branch: NOP
BranchNopOp ==
    /\ last = "cpu" /\ opc \in CondOps
    /\ CpuDoStep(<<\h00, 0, 0>>)
    /\ UNCHANGED <<rf, cycles, vblank, stat_irq, rendered, total, frames, vblanks, saved>>

NextBranch == BranchOp \/ BranchNopOp

SpecBranch == InitBranch /\ [][NextBranch]_vars

\* Whether the condition of op holds for the flags f
Taken(op, f) ==
    \/ op \in {\h20, \hC0, \hC2, \hC4} /\ ~f.z
    \/ op \in {\h28, \hC8, \hCA, \hCC} /\ f.z
    \/ op \in {\h30, \hD0, \hD2, \hD4} /\ ~f.c
    \/ op \in {\h38, \hD8, \hDA, \hDC} /\ f.c

\* C14: a conditional opcode returns 12/8 (JR), 16/12 (JP), 24/12 (CALL),
\* 20/8 (RET) cycles as taken / not taken; not taken, PC is just past the
\* operand bytes and SP and the stack are as before; taken, PC is the target
\* (for RET the popped address, with SP + 2) and CALL has pushed the address
\* of the following instruction.
ConditionalCycles ==
    (last = "cpu" /\ opc \in CondOps) =>
      LET nn    == saved.d * 256 + saved.e
          off   == IF saved.e >= 128 THEN saved.e - 256 ELSE saved.e
          len   == IF opc < \h40 THEN 2 ELSE IF opc % 8 = 0 THEN 1 ELSE 3
          next  == (saved.pc + len) % 65536
          bus0  == BranchBus(saved.sp)
      IN  /\ [cpu EXCEPT !.pc = 0, !.sp = 0] = [saved EXCEPT !.pc = 0, !.sp = 0]
          /\ ~Taken(opc, saved.f) =>
               /\ c = (IF opc < \h40 THEN 8 ELSE IF opc % 8 = 0 THEN 8 ELSE 12)
               /\ cpu.pc = next /\ cpu.sp = saved.sp /\ bus = bus0
          /\ (Taken(opc, saved.f) /\ opc < \h40) =>
               /\ c = 12 /\ cpu.pc = (next + off + 65536) % 65536
               /\ cpu.sp = saved.sp /\ bus = bus0
          /\ (Taken(opc, saved.f) /\ opc \in {\hC2, \hCA, \hD2, \hDA}) =>
               /\ c = 16 /\ cpu.pc = nn /\ cpu.sp = saved.sp /\ bus = bus0
          /\ (Taken(opc, saved.f) /\ opc \in {\hC4, \hCC, \hD4, \hDC}) =>
               /\ c = 24 /\ cpu.pc = nn
               /\ cpu.sp = (saved.sp + 65534) % 65536
               /\ Read8(bus, cpu.sp) = next % 256
               /\ Read8(bus, cpu.sp + 1) = next \div 256
          /\ (Taken(opc, saved.f) /\ opc \in {\hC0, \hC8, \hD0, \hD8}) =>
               /\ c = 20 /\ cpu.pc = ReturnAddress
               /\ cpu.sp = (saved.sp + 2) % 65536 /\ bus = bus0

\* C14 witness: CALL NC was taken, with the address of the next instruction
\* on the stack
ConditionalCyclesWitness ==
    /\ last = "cpu" /\ opc = \hD4 /\ ~saved.f.c /\ c = 24
    /\ cpu.pc = \h8005 /\ cpu.sp = \hC000
    /\ Read8(bus, \hC000) = \h03 /\ Read8(bus, \hC001) = \h01

----------------------------------------------------------------------------
(* The CB-prefixed instructions *)

\* The CB opcode byte stands in E; HL points into WRAM, at a byte that is 0
\* or 0x81; any carry
InitCb ==
    /\ \E op \in Bytes, v \in {\h00, \h81}, cy \in BOOLEAN :
         /\ cpu = [CpuNew EXCEPT !.e = op, !.h = \hC0, !.l = \h10, !.f.c = cy]
         /\ bus = Write8(BusNew(BlankCart), \hC010, v)
    /\ Fresh
    /\ saved = cpu

CbStepOp ==
    /\ last = "new"
    /\ CpuDoStep(<<\hCB, cpu.e, 0>>)
    /\ UNCHANGED <<rf, cycles, vblank, stat_irq, rendered, total, frames, vblanks, saved>>

\* The instruction after the CB-prefixed one: NOP
CbNopOp ==
    /\ last = "cpu" /\ opc = \hCB
    /\ CpuDoStep(<<\h00, 0, 0>>)
    /\ UNCHANGED <<rf, cycles, vblank, stat_irq, rendered, total, frames, vblanks, saved>>

NextCb == CbStepOp \/ CbNopOp

SpecCb == InitCb /\ [][NextCb]_vars

\* C15 as stated: a CB-prefixed instruction returns 8 cycles on a register,
\* 16 cycles on (HL) for the rotates, shifts, RES and SET, and 12 cycles for
\* BIT b,(HL).
CbCycles ==
    (last = "cpu" /\ opc = \hCB) =>
        c = (IF saved.e % 8 # 6 THEN 8
             ELSE IF saved.e \div 64 = 1 THEN 12
             ELSE 16)

----------------------------------------------------------------------------
(* The opcodes without an arm *)

\* The instructions of the cartridge's program: NOP, LD A,d8, EI and each
\* undefined opcode
PanicInstrs ==
    {<<\h00, 0, 0>>, <<\h3E, \h47, 0>>, <<\hFB, 0, 0>>}
    \cup {<<op, 0, 0>> : op \in UndefinedOps}

PanicCpuStep == RunFrameCpu(PanicInstrs)

NextPanic == PanicCpuStep \/ RunFrameBusStep

SpecPanic == Init /\ [][NextPanic]_vars

\* C16 as stated: a cpu.step that fetched an undefined opcode returns to
\* run_frame, handing it the UnimplementedOpcode outcome as an explicit
\* error result (the core signals every error by return).
UnimplementedIsReturned ==
    (fetched /\ opc \in UndefinedOps) => last = "cpu"

----------------------------------------------------------------------------
(* Loading the cartridge *)

\* The least length of an image that Cartridge::load accepts: 0x150
MinRomLen == 336

\* What stands for the Emulator when Emulator::new returned the error
NoEmulator == "none"

\* The lengths of the files that the host loads
RomLens == {0, 1, \h14F, \h150, \h151, \h4000, \h8000, \h10000}

\* The image of length len: its last byte is 0x42, the others 0
Image(len) ==
    [rom |-> IF len = 0 THEN EmptyMem ELSE MPut(EmptyMem, len - 1, \h42),
     len |-> len]

CartridgeLoadInclusive(img) ==
    IF img.len <= MinRomLen THEN [ok |-> FALSE] ELSE [ok |-> TRUE, cart |-> img]

\* Cartridge::load of the file's bytes
CartridgeLoad(img) ==
    IF img.len < MinRomLen THEN [ok |-> FALSE] ELSE [ok |-> TRUE, cart |-> img]

\* Emulator::new: the error of the load is returned by `?`
EmulatorNew(img) ==
    LET New(r) == IF r.ok THEN [ok |-> TRUE, cpu |-> CpuNew, bus |-> BusNew(r.cart)]
                  ELSE [ok |-> FALSE, cpu |-> NoEmulator, bus |-> NoEmulator]
    IN  New(CartridgeLoad(img))

\* The state after Emulator::new returned, for a file of any of the lengths
InitLoad ==
    /\ \E len \in RomLens : \E e \in {EmulatorNew(Image(len))} :
         /\ cpu = e.cpu
         /\ bus = e.bus
         /\ rf = (IF e.ok THEN "cpu" ELSE "none")
         /\ last = (IF e.ok THEN "new" ELSE "error")
         /\ saved = [len |-> len]
    /\ c = 0 /\ cycles = 0 /\ pending = 0 /\ fetched = FALSE
    /\ disp = -1 /\ opc = -1 /\ vblank = FALSE /\ stat_irq = FALSE
    /\ rendered = 0 /\ total = 0 /\ frames = 0 /\ vblanks = 0

\* The instructions of the cartridge's program: NOP and LD A,d8
LoadInstrs == {<<\h00, 0, 0>>, <<\h3E, \h47, 0>>}

\* run_frame on the Emulator that was constructed, the program inside the image
LoadCpuStep ==
    /\ rf = "cpu"
    /\ cpu.pc + 2 < bus.cart.len
    /\ RunFrameCpu(LoadInstrs)

NextLoad == LoadCpuStep \/ RunFrameBusStep

SpecLoad == InitLoad /\ [][NextLoad]_vars

\* The addresses read: around the least length, the bank and the image ends
ProbeAddrs ==
    {\h0000, \h014F, \h0150, \h0151, \h3FFF, \h4000, \h7FFF, \h8000, \hFFFF}

\* C17: a file shorter than 0x150 bytes makes Emulator::new return the error
\* and construct no Emulator; a file of 0x150 bytes or more loads; and every
\* read of the cartridge at or past the end of the image returns 0xFF,
\* through Bus::read8 too.
RomLengthChecked ==
    /\ (saved.len < \h150) <=> (last = "error")
    /\ last = "error" => cpu = NoEmulator /\ bus = NoEmulator /\ rf = "none"
    /\ last # "error" =>
         /\ bus.cart.len = saved.len
         /\ \A addr \in ProbeAddrs :
              addr >= saved.len =>
                /\ CartRead(bus.cart, addr) = \hFF
                /\ addr <= \h7FFF => Read8(bus, addr) = \hFF

\* C17 witness: a file of exactly 0x150 bytes was loaded and has run; its last
\* byte reads as stored, the address past it as 0xFF
RomLengthWitness ==
    /\ last = "cpu" /\ saved.len = \h150
    /\ Read8(bus, \h014F) = \h42 /\ Read8(bus, \h0150) = \hFF

----------------------------------------------------------------------------
(* The addresses that the Bus does not map *)

\* The bus.step cycles up to which the Bus is explored: a scanline
TotalCycleCap == 456

\* Writes that the Bus maps: WRAM, the OAM DMA from external RAM and from
\* WRAM, TAC, LCDC
MappedWrites ==
    {<<\hC000, \h12>>, <<\hFF46, \hA0>>, <<\hFF46, \hC0>>,
     <<\hFF07, \h05>>, <<\hFF40, \h11>>}

\* The addresses without an arm in read8: external RAM, the gap after OAM,
\* and the I/O registers that no arm names
Unmapped ==
    (\hA000..\hBFFF) \cup (\hFEA0..\hFEFF)
    \cup ((\hFF01..\hFF7F)
            \ ((\hFF04..\hFF07) \cup {\hFF0F} \cup (\hFF40..\hFF45)
                 \cup {\hFF47, \hFF4A, \hFF4B}))

\* The unmapped addresses probed in every state: the ends of every page of
\* external RAM, and all of the others
UnmappedProbes ==
    {a \in Unmapped : a >= \hFE00 \/ a % 256 \in {\h00, \hFF}}

\* The cartridge addresses probed in every state: the ends of every page
CartProbes == {a \in \h0000..\h7FFF : a % 256 \in {\h00, \hFF}}

\* The bytes written
WrittenBytes == {\h00, \hA5, \hFF}

\* The addresses that the program writes outside the write mapping
UnmappedWrites ==
    {\h0000, \h2000, \h7FFF, \hA000, \hBFFF, \hFEA0, \hFEFF,
     \hFF01, \hFF3F, \hFF48, \hFF7F}

TotalStepOp ==
    /\ total < TotalCycleCap
    /\ \E cyc \in StepCycles : BusDoStep(cyc) /\ c' = cyc
    /\ UNCHANGED <<cpu, rf, cycles, pending, fetched, disp, opc, saved>>

TotalWriteOp ==
    /\ \E w \in MappedWrites : BusDoWrite(w[1], w[2])
    /\ UNCHANGED <<cpu, rf, cycles, pending, fetched, disp, opc, total, frames, vblanks, saved>>

\* A call bus.write8(addr, v) outside the write mapping
UnmappedWriteOp ==
    /\ \E addr \in UnmappedWrites, v \in WrittenBytes : bus' = Write8(bus, addr, v)
    /\ last' = "unmapped"
    /\ UNCHANGED <<cpu, rf, c, cycles, pending, fetched, disp, opc, vblank, stat_irq,
                   rendered, total, frames, vblanks, saved>>

NextTotal == TotalStepOp \/ TotalWriteOp \/ UnmappedWriteOp

SpecTotal == Init /\ [][NextTotal]_vars

\* C18: in every state read8 returns 0xFF at every unmapped address
\* (0xA000-0xBFFF, 0xFEA0-0xFEFF, 0xFF46 and the unlisted registers of
\* 0xFF01-0xFF7F), and write8 of any byte to the cartridge range or to an
\* unmapped address other than 0xFF46 leaves the whole Bus, with its Ppu and
\* timer, as it was.
BusAccessTotal ==
    /\ [](\A addr \in UnmappedProbes : Read8(bus, addr) = \hFF)
    /\ [](\A addr \in (UnmappedProbes \ {\hFF46}) \cup CartProbes :
            \A v \in WrittenBytes : Write8(bus, addr, v) = bus)
    /\ [][last' = "unmapped" => bus' = bus]_vars

\* C18 witness: a write outside the mapping was made after the OAM DMA had
\* copied 0xFF bytes from external RAM, the timer and the LCD running
BusAccessWitness ==
    /\ last = "unmapped" /\ total > ScanlineCycles
    /\ Read8(bus, \hFE00) = \hFF /\ Read8(bus, \hC000) = \h12
    /\ bus.tac = \h05 /\ bus.tima # 0
    /\ Read8(bus, \hA000) = \hFF /\ Read8(bus, \hFF46) = \hFF

----------------------------------------------------------------------------
(* The framebuffer that the host reads *)

\* The host holds the Emulator: after Emulator::new and after each run_frame
HostCanCall == last = "new" \/ (rf = "cpu" /\ cycles >= FrameCycles)

\* C19 as stated: whenever the host can call framebuffer_rgba, from
\* construction onwards, every pixel has R = G = B, one of 0xFF, 0xAA, 0x55,
\* 0x00, and alpha 0xFF.
FramebufferShades ==
    HostCanCall =>
        \A px \in SamplePixels :
            /\ bus.ppu.fb[px][1] \in {\hFF, \hAA, \h55, \h00}
            /\ bus.ppu.fb[px][2] = bus.ppu.fb[px][1]
            /\ bus.ppu.fb[px][3] = bus.ppu.fb[px][1]
            /\ bus.ppu.fb[px][4] = \hFF

----------------------------------------------------------------------------
(* The background of a rendered frame *)

\* What the program writes before the frame: scroll, LCDC (tile data signed
\* or unsigned, map at 0x9800 or 0x9C00; window off), BGP, and VRAM (map
\* entries, and lines of tiles 0, 1 and 0x80)
RenderWrites ==
    {<<\hFF43, \h05>>, <<\hFF43, \hFD>>,       \* SCX
     <<\hFF42, \hFA>>,                         \* SCY
     <<\hFF40, \h81>>, <<\hFF40, \h89>>,       \* LCDC
     <<\hFF47, \hE4>>,                         \* BGP
     <<\h9800, \h01>>, <<\h9C00, \h80>>,       \* map entries
     <<\h8010, \hFF>>,                         \* tile 1 (unsigned), line 0
     <<\h9010, \hA5>>,                         \* tile 1 (signed), line 0
     <<\h8004, \h3C>>, <<\h8005, \h66>>,       \* tile 0 (unsigned), line 2
     <<\h8801, \h0F>>}                         \* tile 0x80, line 0

\* The program sets the frame up: bus.write8 before the first step
RenderWriteOp ==
    /\ total = 0
    /\ \E w \in RenderWrites : BusDoWrite(w[1], w[2])
    /\ UNCHANGED <<cpu, rf, cycles, pending, fetched, disp, opc, total, frames, vblanks, saved>>

\* The cycle count passed to Ppu::step: a quarter of a frame
RenderCycles == {17556}

\* The ppu.step cycles up to which the frame is explored: a frame and a half
RenderCycleCap == 105336

\* A call ppu.step(cyc, vram); the fourth renders the frame, as LY wraps
RenderStepOp ==
    /\ total < RenderCycleCap
    /\ \E cyc \in RenderCycles : \E r \in {PpuStep(bus.ppu, cyc, bus.vram)} :
         /\ bus' = [bus EXCEPT !.ppu = r.ppu]
         /\ vblank' = r.vblank
         /\ stat_irq' = r.stat_irq
         /\ rendered' = r.rendered
         /\ frames' = frames + r.rendered
         /\ c' = cyc
         /\ total' = total + cyc
    /\ last' = "step"
    /\ UNCHANGED <<cpu, rf, cycles, pending, fetched, disp, opc, vblanks, saved>>

NextRender == RenderWriteOp \/ RenderStepOp

SpecRender == Init /\ [][NextRender]_vars

\* The VRAM addresses changed one at a time: the written ones, their
\* neighbours, and the ends of the tile data and of the maps
VramProbes ==
    {\h8000, \h8001, \h8004, \h8005, \h8006, \h800A, \h800B, \h800E, \h8010,
     \h8011, \h8012, \h8800, \h8801, \h8FFF, \h9000, \h9001, \h9004, \h9005,
     \h9010, \h9011, \h97FF, \h9800, \h9801, \h9813, \h9820, \h9BE0, \h9BFF,
     \h9C00, \h9C01, \h9FE0, \h9FFF}

\* The shade of the palette entry sel
ShadeOf(sel) == <<\hFF, \hAA, \h55, \h00>>[sel + 1]

\* Where the formula locates pixel (x, y): the map entry and the two bytes
\* of the tile line, read from the Bus b
PixelSource(b, x, y) ==
    LET sx    == (x + b.ppu.scx) % 256
        sy    == (y + b.ppu.scy) % 256
        entry == (IF Bit(b.ppu.lcdc, 3) = 1 THEN \h9C00 ELSE \h9800)
                   + (sy \div 8) * 32 + (sx \div 8)
        n     == Read8(b, entry)
        tile  == IF Bit(b.ppu.lcdc, 4) = 1 THEN \h8000 + n * 16
                 ELSE IF n < 128 THEN \h9000 + n * 16
                 ELSE \h9000 - (256 - n) * 16
        lo    == tile + 2 * (sy % 8)
    IN  [entry |-> entry, lo |-> lo, hi |-> lo + 1, bit |-> 7 - (sx % 8)]

\* C20: after a frame render with the window disabled, every pixel (x, y) is
\* opaque with R = G = B the shade that BGP gives the color id made of bit
\* 7 - (sx mod 8) of the two tile-line bytes that the formula locates, for
\* every scroll, map and tile-data selection; and a render on VRAM changed at
\* any other address gives the same pixel. With BGP = 0xE4 and line bytes
\* (0xFF, 0x00) the pixel is 0xAA.
BackgroundPixel ==
    (last = "step" /\ rendered = 1 /\ Bit(bus.ppu.lcdc, 5) = 0) =>
      \A px \in SamplePixels :
        LET src   == PixelSource(bus, px[1], px[2])
            id    == 2 * Bit(Read8(bus, src.hi), src.bit) + Bit(Read8(bus, src.lo), src.bit)
            shade == ShadeOf((bus.ppu.bgp \div (2 ^ (2 * id))) % 4)
        IN  /\ bus.ppu.fb[px] = <<shade, shade, shade, \hFF>>
            /\ (bus.ppu.bgp = \hE4 /\ Read8(bus, src.lo) = \hFF /\ Read8(bus, src.hi) = \h00)
                  => shade = \hAA
            /\ \A a \in VramProbes \ {src.entry, src.lo, src.hi} : \A v \in {\h00, \hFF} :
                  RenderBackground(bus.ppu, MPut(bus.vram, a - \h8000, v)).fb[px]
                     = bus.ppu.fb[px]

\* C20 witness: a frame was rendered with BGP = 0xE4 and the screen's first
\* tile line holding (0xFF, 0x00): its first and eighth pixels are 0xAA
BackgroundPixelWitness ==
    /\ last = "step" /\ rendered = 1 /\ bus.ppu.bgp = \hE4
    /\ bus.ppu.scx = 0 /\ bus.ppu.scy = 0 /\ bus.ppu.lcdc = \h91
    /\ Read8(bus, \h9800) = \h01 /\ Read8(bus, \h8010) = \hFF /\ Read8(bus, \h8011) = \h00
    /\ bus.ppu.fb[<<0, 0>>] = <<\hAA, \hAA, \hAA, \hFF>>
    /\ bus.ppu.fb[<<7, 0>>] = <<\hAA, \hAA, \hAA, \hFF>>

----------------------------------------------------------------------------
(* A whole call of run_frame *)

FrameLoopRunsInclusive == cycles <= FrameCycles

\* The condition of run_frame's loop
FrameLoopRuns == cycles < FrameCycles

\* The instructions that the cartridge may hold at pc: at the entry point
\* HALT, NOP, JR Z to itself, JP Z to the entry point or CALL Z to 0x0200;
\* RET Z at 0x0200; JP Z to the entry point anywhere else
FrameInstrs(pc) ==
    IF pc = \h0100
    THEN {<<\h76, 0, 0>>, <<\h00, 0, 0>>, <<\h28, \hFE, 0>>,
          <<\hCA, \h00, \h01>>, <<\hCC, \h00, \h02>>}
    ELSE IF pc = \h0200 THEN {<<\hC8, 0, 0>>}
    ELSE {<<\hCA, \h00, \h01>>}

\* The cpu.step of one iteration of run_frame's loop
FrameCpuStep ==
    /\ rf = "cpu"
    /\ FrameLoopRuns
    /\ \E ins \in FrameInstrs(cpu.pc) : CpuDoStep(ins)
    /\ rf' = "bus"
    /\ UNCHANGED <<cycles, vblank, stat_irq, rendered, total, frames, vblanks, saved>>

\* run_frame returns to the host when the loop's condition fails
FrameReturn ==
    /\ rf = "cpu"
    /\ ~FrameLoopRuns
    /\ rf' = "host"
    /\ last' = "frame"
    /\ UNCHANGED <<cpu, bus, c, cycles, pending, fetched, disp, opc, vblank, stat_irq,
                   rendered, total, frames, vblanks, saved>>

NextFrame == FrameCpuStep \/ RunFrameBusStep \/ FrameReturn

SpecFrame == Init /\ [][NextFrame]_vars

\* run_frame is a sequential loop that goes on while it can: weak fairness
\* of NextFrame, whose enabling condition is written out (an iteration or
\* the return can be taken in every state but the one after the return)
SpecFrameFair ==
    SpecFrame /\ ([]<>(rf = "host") \/ []<><<NextFrame>>_vars)

\* C21: the call of run_frame terminates, also when the CPU is halted all
\* along; every cpu.step returns between 4 and 24 cycles, and the cycles
\* passed to bus.step during the call sum to T with 70224 <= T <= 70244.
FrameTerminates ==
    /\ <>(rf = "host")
    /\ [](rf \in {"cpu", "bus", "host"})
    /\ [](last = "cpu" => c \in 4..24)
    /\ [](rf = "host" => cycles = total /\ total >= 70224 /\ total <= 70244)

\* C21 witness: run_frame has returned after 70244 cycles, the last cpu.step
\* a CALL of 24 cycles taken at 70220
FrameTerminatesWitness ==
    rf = "host" /\ total = 70244 /\ c = 24 /\ opc = \hCC

----------------------------------------------------------------------------
(* The halted CPU *)

\* The bus after the program has written ie and iflag
HaltBus(ie, iflag) ==
    Write8(Write8(BusNew(BlankCart), \hFFFF, ie), \hFF0F, iflag)

\* The CPU has halted, with IME set or clear; ie stands in D and iflag in E
InitHalt ==
    /\ \E ie \in {\h00, \h01, \h04, \h1F}, iflag \in {\h00, \h01, \h02, \h05, \hE4},
          ime \in BOOLEAN :
         /\ cpu = [CpuNew EXCEPT !.halted = TRUE, !.ime = ime, !.d = ie, !.e = iflag]
         /\ bus = HaltBus(ie, iflag)
    /\ Fresh
    /\ saved = cpu

\* The instructions of the cartridge's program: NOP, INC A, HALT
HaltInstrs == {<<\h00, 0, 0>>, <<\h3C, 0, 0>>, <<\h76, 0, 0>>}

HaltCpuStep == RunFrameCpu(HaltInstrs)

NextHalt == HaltCpuStep \/ RunFrameBusStep

SpecHalt == InitHalt /\ [][NextHalt]_vars

\* C22: a cpu.step of the halted CPU with (ie & iflag) = 0 returns 4 cycles,
\* fetches nothing and changes neither the Cpu nor the Bus; with
\* (ie & iflag) # 0 and IME clear it clears HALT and executes the instruction
\* at PC (NOP, INC A or HALT here), dispatching nothing and leaving iflag as
\* it was.
HaltedStep ==
    [][(IsCpuStep /\ cpu.halted) =>
         /\ And8(bus.ie, bus.iflag) = 0 =>
              /\ c' = 4 /\ ~fetched' /\ disp' = -1
              /\ cpu' = cpu /\ bus' = bus
         /\ (And8(bus.ie, bus.iflag) # 0 /\ ~cpu.ime) =>
              /\ fetched' /\ disp' = -1 /\ c' = 4
              /\ bus' = bus
              /\ cpu'.pc = (cpu.pc + 1) % 65536 /\ cpu'.sp = cpu.sp /\ ~cpu'.ime
              /\ cpu'.halted <=> opc' = \h76
              /\ cpu'.a = (IF opc' = \h3C THEN (cpu.a + 1) % 256 ELSE cpu.a)
              /\ opc' # \h3C => cpu'.f = cpu.f
      ]_vars

\* C22 witness: the halted CPU, with an enabled interrupt pending and IME
\* clear, has executed INC A; iflag is as the program wrote it
HaltedStepWitness ==
    /\ rf = "bus" /\ cycles = 0 /\ saved.halted /\ ~saved.ime
    /\ And8(saved.d, saved.e) = \h05
    /\ fetched /\ opc = \h3C /\ ~cpu.halted /\ cpu.a = saved.a + 1
    /\ bus.iflag = saved.e /\ disp = -1

----------------------------------------------------------------------------
(* The mode of the Ppu *)

\* C23: after every step with the LCD enabled the cycle position in the
\* scanline is below 456, and the mode is 1 when LY >= 144, else 2, 3 or 0 as
\* the position lies in [0, 80), [80, 252) or [252, 456); also after the step
\* that rendered the frame.
ModeFollowsPosition ==
    (last = "step" /\ Bit(bus.ppu.lcdc, 7) = 1) =>
        /\ bus.ppu.cycle_acc \in 0..455
        /\ bus.ppu.ly >= 144 => bus.ppu.mode = 1
        /\ (bus.ppu.ly < 144 /\ bus.ppu.cycle_acc < 80) => bus.ppu.mode = 2
        /\ (bus.ppu.ly < 144 /\ bus.ppu.cycle_acc >= 80 /\ bus.ppu.cycle_acc < 252)
              => bus.ppu.mode = 3
        /\ (bus.ppu.ly < 144 /\ bus.ppu.cycle_acc >= 252) => bus.ppu.mode = 0

\* C23 witness: the step that wrapped LY and rendered the frame, which left
\* mode 0, ended in mode 2 at the start of line 0
ModeFollowsPositionWitness ==
    /\ last = "step" /\ rendered = 1 /\ bus.ppu.ly = 0
    /\ bus.ppu.cycle_acc < 80 /\ bus.ppu.mode = 2 /\ total >= FrameCycles

----------------------------------------------------------------------------
(* Writes to STAT *)

\* C24 as stated: a write to 0xFF41 changes at most bits 3-6 of STAT; bits
\* 0-2 and bit 7 keep the value they had (no other write changes them
\* either).
StatWriteKeepsOthers ==
    [][last' = "write" => And8(bus'.ppu.stat, \h87) = And8(bus.ppu.stat, \h87)]_vars

----------------------------------------------------------------------------
(* TIMA counting the timer's periods *)

\* The cycle counts passed to Bus::step
TimaCycles == {12, 255}

\* The bus.step cycles up to which the timer is explored: past one period of
\* 1024 cycles
TimaCycleCap == 1280

\* The bus.step cycles up to which the program writes the timer's registers
TimaWriteCap == 36

\* TAC (on with each period, off), TMA, TIMA
TimaWrites ==
    {<<\hFF07, \h04>>, <<\hFF07, \h05>>, <<\hFF07, \h06>>, <<\hFF07, \h07>>,
     <<\hFF07, \h01>>,
     <<\hFF06, \hF0>>,
     <<\hFF05, \hFE>>}

TimaStepOp ==
    /\ total < TimaCycleCap
    /\ \E cyc \in TimaCycles : BusDoStep(cyc) /\ c' = cyc
    /\ UNCHANGED <<cpu, rf, cycles, pending, fetched, disp, opc, saved>>

TimaWriteOp ==
    /\ total <= TimaWriteCap
    /\ \E w \in TimaWrites : BusDoWrite(w[1], w[2])
    /\ UNCHANGED <<cpu, rf, cycles, pending, fetched, disp, opc, total, frames, vblanks, saved>>

NextTima == TimaStepOp \/ TimaWriteOp

SpecTima == Init /\ [][NextTima]_vars

\* TIMA after n increments from tima, reloading from tma at each overflow
TimaAfter(tima, tma, n) ==
    IF tima + n < 256 THEN tima + n
    ELSE tma + ((tima + n - 256) % (256 - tma))

\* C25: a bus.step with TAC bit 2 set adds its cycles to the accumulator,
\* increments TIMA once per full period (1024, 16, 64, 256 cycles for TAC
\* bits 1-0 = 0, 1, 2, 3) and keeps the remainder; an increment from 0xFF
\* reloads TIMA from TMA and sets iflag bit 2; with TAC bit 2 clear the step
\* changes neither TIMA, the accumulator nor iflag bit 2.
TimaCounts ==
    [][IsBusStep =>
         LET period == <<1024, 16, 64, 256>>[(bus.tac % 4) + 1]
             sum    == bus.timer_counter + c'
             n      == sum \div period
         IN  IF (bus.tac \div 4) % 2 = 1
             THEN /\ bus'.timer_counter = sum % period
                  /\ bus'.tima = TimaAfter(bus.tima, bus.tma, n)
                  /\ Bit(bus'.iflag, 2) =
                       (IF bus.tima + n >= 256 THEN 1 ELSE Bit(bus.iflag, 2))
             ELSE /\ bus'.timer_counter = bus.timer_counter
                  /\ bus'.tima = bus.tima
                  /\ Bit(bus'.iflag, 2) = Bit(bus.iflag, 2)
      ]_vars

\* C25 witness: with a period of 16 and TMA = 0xF0, a step of 255 cycles has
\* overflowed TIMA and left a remainder in the accumulator
TimaCountsWitness ==
    /\ last = "step" /\ c = 255 /\ bus.tac = \h05 /\ bus.tma = \hF0
    /\ Bit(bus.iflag, 2) = 1 /\ bus.tima >= \hF0 /\ bus.timer_counter = 15

----------------------------------------------------------------------------
(* The OAM DMA *)

\* The cartridge of the DMA experiment: bytes at both ends of the first block
DmaCart ==
    [rom |-> MPut(MPut(MPut(EmptyMem, \h0000, \hC3), \h009F, \h5A), \h00A0, \h99),
     len |-> RomLen]

\* What the program wrote before the DMA: (addr, v), all at different
\* addresses; the first, last and next-after-last bytes of blocks in VRAM,
\* WRAM, OAM and HRAM, and some registers
DmaSetup ==
    {<<\h8000, \h44>>, <<\h809F, \h45>>,
     <<\hC000, \h11>>, <<\hC09F, \h22>>, <<\hC0A0, \h33>>, <<\hDD10, \h34>>,
     <<\hFE00, \h77>>, <<\hFE50, \h78>>, <<\hFE9F, \h88>>,
     <<\hFF80, \h55>>, <<\hFF9F, \h66>>,
     <<\hFF42, \h99>>, <<\hFF06, \hAB>>, <<\hFF0F, \h1F>>}

\* The bus after the writes ws
RECURSIVE WriteAll(_, _)
WriteAll(b, ws) ==
    IF ws = {} THEN b
    ELSE LET w == CHOOSE x \in ws : TRUE
         IN  WriteAll(Write8(b, w[1], w[2]), ws \ {w})

DmaBus == WriteAll(BusNew(DmaCart), DmaSetup)

\* A holds the byte that the program writes to 0xFF46
InitDma ==
    /\ \E v \in Bytes : cpu = [CpuNew EXCEPT !.a = v]
    /\ bus = DmaBus
    /\ Fresh
    /\ saved = cpu

\* LDH (0x46),A
DmaOp ==
    /\ last = "new"
    /\ CpuDoStep(<<\hE0, \h46, 0>>)
    /\ UNCHANGED <<rf, cycles, vblank, stat_irq, rendered, total, frames, vblanks, saved>>

\* The instruction after the DMA: NOP
DmaNopOp ==
    /\ last = "cpu" /\ opc = \hE0
    /\ CpuDoStep(<<\h00, 0, 0>>)
    /\ UNCHANGED <<rf, cycles, vblank, stat_irq, rendered, total, frames, vblanks, saved>>

NextDma == DmaOp \/ DmaNopOp

SpecDma == InitDma /\ [][NextDma]_vars

\* C26: when the write of v to 0xFF46 returns, OAM[i] is what read8 returned
\* at (v << 8) + i before the write, for i in 0..0x9F and every v, and
\* nothing but OAM has changed.
DmaCopies ==
    (last = "cpu" /\ opc = \hE0) =>
        /\ \A i \in 0..159 :
             Read8(bus, \hFE00 + i) = Read8(DmaBus, saved.a * 256 + i)
        /\ [bus EXCEPT !.oam = EmptyMem] = [DmaBus EXCEPT !.oam = EmptyMem]

\* C26 witness: the DMA from 0xFF00 has copied registers, unmapped addresses
\* and HRAM into OAM
DmaCopiesWitness ==
    /\ last = "cpu" /\ opc = \hE0 /\ saved.a = \hFF
    /\ Read8(bus, \hFE42) = \h99 /\ Read8(bus, \hFE0F) = \h1F
    /\ Read8(bus, \hFE46) = \hFF /\ Read8(bus, \hFE80) = \h55
    /\ Read8(bus, \hFE9F) = \h66 /\ Read8(bus, \hFE00) = Read8(DmaBus, \hFF00)

----------------------------------------------------------------------------
(* Work RAM and its echo *)

\* What the program writes: both ends of the echo and of the WRAM under it,
\* the WRAM that has no echo, and OAM, HRAM and VRAM
EchoWrites ==
    {<<\hE000, \h12>>, <<\hFDFF, \h34>>, <<\hC000, \h56>>, <<\hDDFF, \h78>>,
     <<\hE123, \h9A>>, <<\hC123, \h00>>,
     <<\hDE00, \hBC>>, <<\hFE00, \hDE>>, <<\hFF80, \hF0>>, <<\h9FFF, \h0F>>}

EchoWriteOp ==
    /\ \E w \in EchoWrites : BusDoWrite(w[1], w[2])
    /\ UNCHANGED <<cpu, rf, cycles, pending, fetched, disp, opc, total, frames, vblanks, saved>>

\* A bus.step between the writes
EchoStepOp ==
    /\ total < ScanlineCycles
    /\ \E cyc \in StepCycles : BusDoStep(cyc) /\ c' = cyc
    /\ UNCHANGED <<cpu, rf, cycles, pending, fetched, disp, opc, saved>>

NextEcho == EchoWriteOp \/ EchoStepOp

SpecEcho == Init /\ [][NextEcho]_vars

\* The addresses written in every state: the ends of the echo, of the WRAM
\* under it and of the WRAM without an echo, and addresses inside
EchoProbes ==
    {\hC000, \hC001, \hC123, \hD000, \hDDFF, \hDE00, \hDFFF,
     \hE000, \hE001, \hE123, \hF000, \hFDFF}

\* The other address at which the byte of WRAM address a is seen, if any
MirrorOf(a) ==
    IF a >= \hE000 THEN a - \h2000
    ELSE IF a <= \hDDFF THEN a + \h2000
    ELSE a

\* C27: in every state every echo address reads as the WRAM address 0x2000
\* below it; a byte written to a in 0xE000-0xFDFF is read back at a and at
\* a - 0x2000, a byte written to a in 0xC000-0xDDFF at a and at a + 0x2000;
\* and the write changes no other byte of WRAM and nothing outside WRAM.
EchoMirrors ==
    /\ \A a \in EchoProbes : Read8(bus, a) = Read8(bus, MirrorOf(a))
    /\ \A a \in EchoProbes : \A v \in {\h00, \hA5} :
         /\ Read8(Write8(bus, a, v), a) = v
         /\ Read8(Write8(bus, a, v), MirrorOf(a)) = v
         /\ \A o \in EchoProbes \ {a, MirrorOf(a)} :
              Read8(Write8(bus, a, v), o) = Read8(bus, o)
         /\ [Write8(bus, a, v) EXCEPT !.wram = EmptyMem] = [bus EXCEPT !.wram = EmptyMem]

\* C27 witness: bytes written through the echo are read in WRAM and bytes
\* written in WRAM are read through the echo
EchoMirrorsWitness ==
    /\ last = "write"
    /\ Read8(bus, \hC000) = \h12 /\ Read8(bus, \hE000) = \h12
    /\ Read8(bus, \hDDFF) = \h78 /\ Read8(bus, \hFDFF) = \h78
    /\ Read8(bus, \hC123) = \h9A /\ Read8(bus, \hDE00) = \hBC

----------------------------------------------------------------------------
(* The joypad *)

\* Every JoypadState
JoypadStates ==
    [up : BOOLEAN, down : BOOLEAN, left : BOOLEAN, right : BOOLEAN,
     a : BOOLEAN, b : BOOLEAN, start : BOOLEAN, select : BOOLEAN]

SetJoypadIrq(b, s) == [b EXCEPT !.joypad = s, !.iflag = Or8(@, \h10)]

\* Emulator::set_joypad
SetJoypad(b, s) == [b EXCEPT !.joypad = s]

\* The bytes that the program writes to 0xFF00
JoypWrites == {\h00, \h10, \h20, \h30, \hCF, \hEF, \hFF}

\* The host calls set_joypad
SetJoypadOp ==
    /\ \E s \in JoypadStates : bus' = SetJoypad(bus, s)
    /\ last' = "joypad"
    /\ UNCHANGED <<cpu, rf, c, cycles, pending, fetched, disp, opc, vblank, stat_irq,
                   rendered, total, frames, vblanks, saved>>

JoypWriteOp ==
    /\ \E v \in JoypWrites : BusDoWrite(\hFF00, v)
    /\ UNCHANGED <<cpu, rf, cycles, pending, fetched, disp, opc, total, frames, vblanks, saved>>

NextJoyp == SetJoypadOp \/ JoypWriteOp

SpecJoyp == Init /\ [][NextJoyp]_vars

\* The bits 0-3 that the pressed buttons of a group pull low
PressedMask(b0, b1, b2, b3) ==
    (IF b0 THEN 1 ELSE 0) + (IF b1 THEN 2 ELSE 0)
      + (IF b2 THEN 4 ELSE 0) + (IF b3 THEN 8 ELSE 0)

\* C28: in every state a read of 0xFF00 returns 0xC0 | (joyp_select & 0x30)
\* with bits 0-3 set except those of the pressed buttons of each selected
\* group (right, left, up, down when bit 4 is 0; a, b, select, start when bit
\* 5 is 0); a write to 0xFF00 stores bits 4-5 of the byte and nothing else;
\* set_joypad replaces the button record and nothing else.
JoypadRead ==
    /\ [](LET j    == bus.joypad
              dpad == IF (bus.joyp_select \div 16) % 2 = 0
                      THEN PressedMask(j.right, j.left, j.up, j.down) ELSE 0
              btn  == IF (bus.joyp_select \div 32) % 2 = 0
                      THEN PressedMask(j.a, j.b, j.select, j.start) ELSE 0
              low  == {k \in 0..3 : (dpad \div (2 ^ k)) % 2 = 0 /\ (btn \div (2 ^ k)) % 2 = 0}
          IN  /\ bus.joyp_select \in {\h00, \h10, \h20, \h30}
              /\ Read8(bus, \hFF00) =
                   \hC0 + bus.joyp_select
                     + (IF 0 \in low THEN 1 ELSE 0) + (IF 1 \in low THEN 2 ELSE 0)
                     + (IF 2 \in low THEN 4 ELSE 0) + (IF 3 \in low THEN 8 ELSE 0)
              /\ \A v \in JoypWrites :
                   Write8(bus, \hFF00, v) = [bus EXCEPT !.joyp_select = ((v \div 16) % 4) * 16])
    /\ [][last' = "joypad" =>
            [bus' EXCEPT !.joypad = JoypadDefault] = [bus EXCEPT !.joypad = JoypadDefault]]_vars
    /\ [][last' = "write" => bus'.joypad = bus.joypad]_vars

\* C28 witness: with both groups selected, right and start pressed, 0xFF00
\* reads 0xC6
JoypadReadWitness ==
    /\ last = "joypad" /\ bus.joyp_select = \h00
    /\ bus.joypad = [JoypadDefault EXCEPT !.right = TRUE, !.start = TRUE]
    /\ Read8(bus, \hFF00) = \hC6

----------------------------------------------------------------------------
(* ADC A,v, SBC A,v and CP v, for every A, v and carry *)

\* A is any byte, so is v, which register B holds, and the carry is either
InitCarry ==
    /\ \E x \in Bytes, v \in Bytes, cy \in BOOLEAN :
          cpu = [CpuNew EXCEPT !.a = x, !.b = v, !.f.c = cy]
    /\ bus = BusNew(BlankCart)
    /\ Fresh
    /\ saved = cpu

\* ADC A,B, ADC A,d8, SBC A,B or SBC A,d8 with d8 = v
CarryOp ==
    /\ last = "new"
    /\ \E ins \in {<<\h88, 0, 0>>, <<\hCE, cpu.b, 0>>,
                   <<\h98, 0, 0>>, <<\hDE, cpu.b, 0>>} : CpuDoStep(ins)
    /\ UNCHANGED <<rf, cycles, vblank, stat_irq, rendered, total, frames, vblanks, saved>>

\* CP B or CP d8 with d8 = v
CompareOp ==
    /\ last = "new"
    /\ \E ins \in {<<\hB8, 0, 0>>, <<\hFE, cpu.b, 0>>} : CpuDoStep(ins)
    /\ UNCHANGED <<rf, cycles, vblank, stat_irq, rendered, total, frames, vblanks, saved>>

NextCarry == CarryOp \/ CompareOp

SpecCarry == InitCarry /\ [][NextCarry]_vars

\* C29: with A, v and carry-in c before the instruction, ADC A,v leaves
\* A' = (A + v + c) mod 256, Z = (A' = 0), N = 0,
\* H = (A & 0xF) + (v & 0xF) + c > 0xF, C = A + v + c > 0xFF; SBC A,v leaves
\* A' = (A - v - c) mod 256, Z = (A' = 0), N = 1,
\* H = (A & 0xF) < (v & 0xF) + c, C = A < v + c; CP v leaves A and sets
\* Z = (A = v), N = 1, H = (A & 0xF) < (v & 0xF), C = A < v.
CarryArithmetic ==
    LET a0 == saved.a
        v  == saved.b
        ci == IF saved.f.c THEN 1 ELSE 0
    IN  /\ (last = "cpu" /\ opc \in {\h88, \hCE}) =>
              /\ cpu.a = (a0 + v + ci) % 256
              /\ cpu.f = [z |-> cpu.a = 0, n |-> FALSE,
                          h |-> (a0 % 16) + (v % 16) + ci > 15,
                          c |-> a0 + v + ci > 255]
        /\ (last = "cpu" /\ opc \in {\h98, \hDE}) =>
              /\ cpu.a = (a0 + 512 - v - ci) % 256
              /\ cpu.f = [z |-> cpu.a = 0, n |-> TRUE,
                          h |-> (a0 % 16) < (v % 16) + ci,
                          c |-> a0 < v + ci]
        /\ (last = "cpu" /\ opc \in {\hB8, \hFE}) =>
              /\ cpu.a = a0
              /\ cpu.f = [z |-> a0 = v, n |-> TRUE,
                          h |-> (a0 % 16) < (v % 16), c |-> a0 < v]
        /\ last = "cpu" => cpu.b = v

\* C29 witness: SBC A,0xFF with A = 0 and the carry set borrows only through
\* the carry-in: A' = 0, Z, H and C set
CarryArithmeticWitness ==
    /\ last = "cpu" /\ opc = \hDE
    /\ saved.a = \h00 /\ saved.b = \hFF /\ saved.f.c
    /\ cpu.a = \h00
    /\ cpu.f = [z |-> TRUE, n |-> TRUE, h |-> TRUE, c |-> TRUE]

----------------------------------------------------------------------------
(* The flags that an instruction leaves alone *)

\* The byte that the 8-bit registers and the byte at HL hold
KeepBytes == {\h00, \h01, \h0F, \h10, \hFF}

KeepSps == {\hDFF0, \hC0FF}

\* The operand bytes <<lo, hi>> that follow the opcode
KeepOperands == {<<\h10, \hC0>>, <<\hFF, \hDF>>, <<\h01, \h00>>, <<\h80, \hFF>>}

\* Every register holds x, HL is 0xC000 + x or x * 257, the byte at
\* 0xC000 + x is x, and the flags are any of the sixteen
InitKeep ==
    /\ \E x \in KeepBytes, hh \in BOOLEAN, s \in KeepSps, fl \in [z : BOOLEAN, n : BOOLEAN,
                                                                  h : BOOLEAN, c : BOOLEAN] :
         /\ cpu = [CpuNew EXCEPT !.a = x, !.b = x, !.c = x, !.d = x, !.e = x,
                                 !.h = (IF hh THEN x ELSE \hC0), !.l = x,
                                 !.sp = s, !.f = fl]
         /\ bus = Write8(BusNew(BlankCart), \hC000 + x, x)
    /\ Fresh
    /\ saved = cpu

IncDec8Ops ==
    {\h04, \h0C, \h14, \h1C, \h24, \h2C, \h34, \h3C,
     \h05, \h0D, \h15, \h1D, \h25, \h2D, \h35, \h3D}

AddHlOps == {\h09, \h19, \h29, \h39}

IncDec16Ops == {\h03, \h13, \h23, \h33, \h0B, \h1B, \h2B, \h3B}

\* The CB-prefixed opcodes of BIT b,r and BIT b,(HL)
BitOps == \h40..\h7F

\* The 8-bit loads
Load8Ops ==
    ((\h40..\h7F) \ {\h76})
      \cup {\h06, \h0E, \h16, \h1E, \h26, \h2E, \h36, \h3E,
            \h02, \h12, \h0A, \h1A, \h22, \h2A, \h32, \h3A,
            \hE0, \hF0, \hE2, \hF2, \hEA, \hFA}

\* The 16-bit loads that copy their operand
Load16Ops == {\h01, \h11, \h21, \h31, \h08, \hF9, \hC5, \hD5, \hE5, \hF5, \hC1, \hD1, \hE1}

\* The 16-bit loads that assign the flags: LD HL,SP+r8 and POP AF
LoadFlagOps == {\hF8, \hF1}

KeepIncDecOp ==
    /\ last = "new"
    /\ \E op \in IncDec8Ops \cup IncDec16Ops \cup AddHlOps : CpuDoStep(<<op, 0, 0>>)
    /\ UNCHANGED <<rf, cycles, vblank, stat_irq, rendered, total, frames, vblanks, saved>>

KeepBitOp ==
    /\ last = "new"
    /\ \E op \in BitOps : CpuDoStep(<<\hCB, op, 0>>)
    /\ UNCHANGED <<rf, cycles, vblank, stat_irq, rendered, total, frames, vblanks, saved>>

KeepLoadOp ==
    /\ last = "new"
    /\ \E op \in Load8Ops \cup Load16Ops \cup LoadFlagOps, nn \in KeepOperands :
          CpuDoStep(<<op, nn[1], nn[2]>>)
    /\ UNCHANGED <<rf, cycles, vblank, stat_irq, rendered, total, frames, vblanks, saved>>

NextKeep == KeepIncDecOp \/ KeepBitOp \/ KeepLoadOp

SpecKeep == InitKeep /\ [][NextKeep]_vars

\* What every instruction of the experiment leaves alone, but for the loads
KeepsButLoads ==
    /\ opc' \in IncDec8Ops => cpu'.f.c = cpu.f.c
    /\ opc' \in AddHlOps => cpu'.f.z = cpu.f.z
    /\ opc' = \hCB =>
          /\ cpu'.f.c = cpu.f.c
          /\ cpu' = [cpu EXCEPT !.pc = cpu'.pc, !.f = cpu'.f]
          /\ bus' = bus
    /\ opc' \in IncDec16Ops => cpu'.f = cpu.f

\* C30 as stated: an 8-bit INC or DEC leaves C, ADD HL,rr leaves Z, CB BIT
\* leaves C and its operand, INC/DEC rr and every load leave all four flags.
FlagsKeptByAllLoads ==
    [][last' = "cpu" =>
         /\ KeepsButLoads
         /\ opc' \in Load8Ops \cup Load16Ops \cup LoadFlagOps => cpu'.f = cpu.f]_vars

\* C30: an 8-bit INC or DEC of a register or (HL) leaves C unchanged; ADD
\* HL,rr leaves Z unchanged; CB BIT leaves C, every register and the memory
\* unchanged; INC/DEC rr and every load other than LD HL,SP+r8 and POP AF
\* leave all four flags unchanged. LD HL,SP+r8 clears Z and N and sets H and
\* C from the low nibble and low byte of SP plus the operand; POP AF takes
\* the flags from bits 4-7 of the popped low byte.
FlagsKept ==
    [][last' = "cpu" =>
         /\ KeepsButLoads
         /\ opc' \in Load8Ops \cup Load16Ops => cpu'.f = cpu.f
         /\ opc' = \hF8 =>
              /\ ~cpu'.f.z /\ ~cpu'.f.n
              /\ \E r8 \in {nn[1] : nn \in KeepOperands} :
                   /\ HL(cpu') = (cpu.sp + r8 + (IF r8 >= 128 THEN 65280 ELSE 0)) % 65536
                   /\ cpu'.f.h = ((cpu.sp % 16) + (r8 % 16) > 15)
                   /\ cpu'.f.c = ((cpu.sp % 256) + r8 > 255)
         /\ opc' = \hF1 =>
              ToByte(cpu'.f) = (Read8(bus, cpu.sp) \div 16) * 16]_vars

\* C30 witness: DEC (HL) has taken the byte at HL from 0x00 to 0xFF, setting
\* N and H and clearing Z, with the carry still set
FlagsKeptWitness ==
    /\ last = "cpu" /\ opc = \h35
    /\ saved.f = [z |-> TRUE, n |-> FALSE, h |-> FALSE, c |-> TRUE]
    /\ HL(saved) = \hC000 /\ Read8(bus, \hC000) = \hFF
    /\ cpu.f = [z |-> FALSE, n |-> TRUE, h |-> TRUE, c |-> TRUE]

----------------------------------------------------------------------------
(* DAA after ADD A,y and after SUB y, for packed-BCD x and y *)

\* The bytes whose two nibbles are decimal digits
BcdBytes == {hi * 16 + lo : hi \in 0..9, lo \in 0..9}

\* The packed BCD of n in 0..99, and the number a packed-BCD byte stands for
ToBcd(n) == (n \div 10) * 16 + (n % 10)

FromBcd(x) == (x \div 16) * 10 + (x % 16)

\* A holds x and B holds y
InitDaa ==
    /\ \E x \in BcdBytes, y \in BcdBytes : cpu = [CpuNew EXCEPT !.a = x, !.b = y]
    /\ bus = BusNew(BlankCart)
    /\ Fresh
    /\ saved = cpu

\* ADD A,B or SUB B
DaaArithOp ==
    /\ last = "new"
    /\ \E op \in {\h80, \h90} : CpuDoStep(<<op, 0, 0>>)
    /\ UNCHANGED <<rf, cycles, vblank, stat_irq, rendered, total, frames, vblanks, saved>>

\* DAA after it
DaaOp ==
    /\ last = "cpu" /\ opc \in {\h80, \h90}
    /\ CpuDoStep(<<\h27, 0, 0>>)
    /\ UNCHANGED <<rf, cycles, vblank, stat_irq, rendered, total, frames, vblanks, saved>>

NextDaa == DaaArithOp \/ DaaOp

SpecDaa == InitDaa /\ [][NextDaa]_vars

\* C31: for packed-BCD x and y, after A = x; ADD A,y; DAA the register A is
\* the packed BCD of (x + y) mod 100 with C = (x + y >= 100), and after A = x;
\* SUB y; DAA it is the packed BCD of (x - y) mod 100 with C = (x < y); in both
\* cases Z = (A = 0) and H = 0.
DaaAdjusts ==
    LET x == FromBcd(saved.a)
        y == FromBcd(saved.b)
    IN  (last = "cpu" /\ opc = \h27) =>
            /\ ~cpu.f.n => /\ cpu.a = ToBcd((x + y) % 100)
                           /\ cpu.f.c = (x + y >= 100)
            /\ cpu.f.n => /\ cpu.a = ToBcd((x + 100 - y) % 100)
                          /\ cpu.f.c = (x < y)
            /\ cpu.f.z = (cpu.a = 0)
            /\ ~cpu.f.h

\* C31 witness: 0x58 + 0x67 gave 0xBF; DAA adjusts both digits to 0x25 and
\* sets the carry: 58 + 67 = 125
DaaAdjustsWitness ==
    /\ last = "cpu" /\ opc = \h27 /\ ~cpu.f.n
    /\ saved.a = \h58 /\ saved.b = \h67
    /\ cpu.a = \h25 /\ cpu.f.c /\ ~cpu.f.z /\ ~cpu.f.h

----------------------------------------------------------------------------
(* The window of a rendered frame *)

\* What the program writes before the frame: LCDC with the window on (map at
\* 0x9800 or 0x9C00), WX, WY, and VRAM (the first entry of the 0x9C00 map,
\* lines 0 and 3 of tile 1)
WindowWrites ==
    {<<\hFF40, \hB1>>, <<\hFF40, \hF1>>,                     \* LCDC
     <<\hFF4B, \h03>>, <<\hFF4B, \h07>>, <<\hFF4B, \h0F>>,   \* WX
     <<\hFF4B, \hA7>>,
     <<\hFF4A, \h02>>, <<\hFF4A, \h90>>,                     \* WY
     <<\h9C00, \h01>>,                                       \* map entry
     <<\h8010, \hFF>>, <<\h8016, \hFF>>}                     \* tile 1

\* The program sets the frame up: bus.write8 before the first step
WindowWriteOp ==
    /\ total = 0
    /\ \E w \in WindowWrites : BusDoWrite(w[1], w[2])
    /\ UNCHANGED <<cpu, rf, cycles, pending, fetched, disp, opc, total, frames, vblanks, saved>>

NextWindow == WindowWriteOp \/ RenderStepOp

SpecWindow == Init /\ [][NextWindow]_vars

\* C32 as stated: after a frame render with LCDC bit 5 set, every pixel (x, y)
\* with y >= wy and x >= wx - 7 (a signed difference) shows the window tile
\* pixel at (x - (wx - 7), y - wy) of the map that LCDC bit 6 selects, and
\* every other pixel shows the background.
WindowPixel ==
    (last = "step" /\ rendered = 1 /\ Bit(bus.ppu.lcdc, 7) = 1
       /\ Bit(bus.ppu.lcdc, 5) = 1) =>
      \A px \in SamplePixels :
        LET p     == bus.ppu
            left  == p.wx - 7
            shade == IF px[2] >= p.wy /\ px[1] >= left
                     THEN TileShade(p, bus.vram,
                                    IF Bit(p.lcdc, 6) = 1 THEN \h9C00 ELSE \h9800,
                                    px[1] - left, px[2] - p.wy)
                     ELSE BgShade(p, bus.vram, px[1], px[2])
        IN  p.fb[px] = <<shade, shade, shade, \hFF>>

----------------------------------------------------------------------------
(* The interrupt sources *)

\* The bytes that the program writes to ie and to iflag
IrqBytes == {\h00, \h01, \h10, \h1F, \h20, \h40, \h80, \hE0, \hFF}

\* The program has written ie and iflag; the CPU runs or has halted, with IME
\* set or clear
InitSources ==
    /\ \E ie \in IrqBytes, iflag \in IrqBytes, ime \in BOOLEAN, halted \in BOOLEAN :
         /\ cpu = [CpuNew EXCEPT !.halted = halted, !.ime = ime]
         /\ bus = HaltBus(ie, iflag)
    /\ Fresh
    /\ saved = cpu

\* The instructions of the cartridge's program: NOP, HALT
SourcesInstrs == {<<\h00, 0, 0>>, <<\h76, 0, 0>>}

SourcesCpuStep == RunFrameCpu(SourcesInstrs)

NextSources == SourcesCpuStep \/ RunFrameBusStep

SpecSources == InitSources /\ [][NextSources]_vars

\* C33 as stated: a cpu.step that dispatches sets PC to one of 0x40, 0x48,
\* 0x50, 0x58, 0x60, and with bits 0-4 of ie & iflag clear it neither
\* dispatches nor ends HALT.
FiveSources ==
    [][IsCpuStep =>
         /\ disp' # -1 => cpu'.pc \in {\h40, \h48, \h50, \h58, \h60}
         /\ And8(And8(bus.ie, bus.iflag), \h1F) = 0 =>
              /\ disp' = -1
              /\ cpu.halted => cpu'.halted /\ ~fetched']_vars

----------------------------------------------------------------------------
(* The interrupt flags over a frame *)

\* The bus after the program's set-up: ie = 0x04 (Timer), the LYC
\* source of STAT enabled, TIMA = 0xFE counting at 1024 cycles
IflagBus(iflag) ==
    Write8(Write8(Write8(Write8(HaltBus(\h04, iflag), \hFF41, \h40),
                         \hFF05, \hFE), \hFF06, \h00), \hFF07, \h04)

InitIflag ==
    /\ \E iflag \in {\h00, \hF8} :
         /\ cpu = CpuNew
         /\ bus = IflagBus(iflag)
    /\ Fresh
    /\ saved = cpu

\* The instructions that the cartridge may hold at pc: EI or HALT at the entry
\* point, EI or LDH (0x0F),A at the Timer vector, HALT elsewhere
IflagProgram(pc) ==
    IF pc = \h0100 THEN {<<\hFB, 0, 0>>, <<\h76, 0, 0>>}
    ELSE IF pc = \h0050 THEN {<<\hFB, 0, 0>>, <<\hE0, \h0F, 0>>}
    ELSE {<<\h76, 0, 0>>}

\* The bus.step cycles up to which the frame is explored: past line 144
IflagCycleCap == 66120

IflagCpuStep ==
    /\ rf = "cpu"
    /\ FrameLoopRuns
    /\ total < IflagCycleCap
    /\ \E ins \in IflagProgram(cpu.pc) : CpuDoStep(ins)
    /\ rf' = "bus"
    /\ UNCHANGED <<cycles, vblank, stat_irq, rendered, total, frames, vblanks, saved>>

NextIflag == IflagCpuStep \/ RunFrameBusStep

SpecIflag == InitIflag /\ [][NextIflag]_vars

\* C34: bus.step clears no bit of iflag and leaves its bits 3-7 as they were,
\* so the bits it turns on are among bit 0, bit 1 and bit 2; a step that
\* clears an iflag bit is a cpu.step that dispatches an interrupt or executes
\* a write to 0xFF0F (LDH (0x0F),A is the program's only such instruction).
IflagOnlyRaised ==
    /\ [][IsBusStep =>
            /\ And8(bus'.iflag, bus.iflag) = bus.iflag
            /\ And8(bus'.iflag, \hF8) = And8(bus.iflag, \hF8)]_vars
    /\ [][And8(bus'.iflag, bus.iflag) # bus.iflag =>
            /\ IsCpuStep
            /\ disp' # -1 \/ (fetched' /\ opc' = \hE0)]_vars

\* C34 witness: the bus.step that reaches line 144 raises bit 0 next to the
\* STAT and Timer bits raised by earlier steps and the bits 3-7 that the
\* program wrote
IflagOnlyRaisedWitness ==
    /\ last = "step" /\ vblank /\ total = 65664
    /\ bus.iflag = \hFF

----------------------------------------------------------------------------
(* The framebuffer over a frame *)

\* Emulator::new, then the program's write of ie = 0x01 (VBlank)
InitFb ==
    /\ cpu = CpuNew
    /\ bus = HaltBus(\h01, \h00)
    /\ Fresh
    /\ saved = cpu

\* The instructions that the cartridge may hold at pc. At the entry point:
\* LD (0x8000),A (tile data), LDH (0x40),A (LCDC = 0x01, the LCD off) or HALT.
\* Where the CPU resumes after line 144 woke it: LDH (0x47),A (BGP),
\* LDH (0x43),A (SCX), LDH (0x4B),A (WX) or HALT. HALT elsewhere.
FbProgram(pc) ==
    IF pc = \h0100
    THEN {<<\hEA, \h00, \h80>>, <<\hE0, \h40, 0>>, <<\h76, 0, 0>>}
    ELSE IF pc \in {\h0101, \h0104}
    THEN {<<\hE0, \h47, 0>>, <<\hE0, \h43, 0>>, <<\hE0, \h4B, 0>>, <<\h76, 0, 0>>}
    ELSE {<<\h76, 0, 0>>}

FbCpuStep ==
    /\ rf = "cpu"
    /\ FrameLoopRuns
    /\ \E ins \in FbProgram(cpu.pc) : CpuDoStep(ins)
    /\ rf' = "bus"
    /\ UNCHANGED <<cycles, vblank, stat_irq, rendered, total, frames, vblanks, saved>>

NextFb == FbCpuStep \/ RunFrameBusStep

SpecFb == InitFb /\ [][NextFb]_vars

\* C35: the framebuffer changes only in a bus.step that takes LY from 153 to
\* 0 with the LCD on, or in a bus.step with the LCD off; the first leaves the
\* frame rendered from the registers and VRAM as they are at that step, the
\* second leaves it filled with 0xFF; no cpu.step changes it, whatever it
\* writes to VRAM, SCX, BGP, WX or LCDC.
FramebufferChanges ==
    /\ [][bus'.ppu.fb # bus.ppu.fb =>
            /\ IsBusStep
            /\ \/ Bit(bus.ppu.lcdc, 7) = 0
               \/ bus.ppu.ly = 153 /\ bus'.ppu.ly = 0 /\ rendered' = 1]_vars
    /\ [][(IsBusStep /\ Bit(bus.ppu.lcdc, 7) = 1
              /\ bus.ppu.ly = 153 /\ bus'.ppu.ly = 0) =>
            bus'.ppu.fb = RenderBackground(bus'.ppu, bus'.vram).fb]_vars
    /\ [][(IsBusStep /\ Bit(bus.ppu.lcdc, 7) = 0) => bus'.ppu.fb = FbFill]_vars
    /\ [][IsCpuStep => bus'.ppu.fb = bus.ppu.fb]_vars

\* C35 witness: the bus.step that ends the frame has rendered it with the
\* tile byte written at the entry point and the BGP written during VBlank:
\* color 0 is 0xAA and the tile's eighth pixel, color 1, is 0xFF
FramebufferChangesWitness ==
    /\ last = "step" /\ rendered = 1 /\ bus.ppu.ly = 0
    /\ Read8(bus, \h8000) = \h01 /\ bus.ppu.bgp = \h01
    /\ bus.ppu.fb[<<0, 0>>] = <<\hAA, \hAA, \hAA, \hFF>>
    /\ bus.ppu.fb[<<7, 0>>] = <<\hFF, \hFF, \hFF, \hFF>>

----------------------------------------------------------------------------
(* The halted CPU over two calls of run_frame *)

\* Emulator::new, then the program's write to ie: VBlank enabled or nothing
InitWake ==
    /\ \E ie \in {\h00, \h01} :
         /\ cpu = CpuNew
         /\ bus = HaltBus(ie, \h00)
    /\ Fresh
    /\ saved = cpu

\* The cartridge's program. At the entry point EI or NOP, then HALT; where
\* the CPU resumes with IME clear, XOR A and LDH (0x0F),A (iflag = 0) and
\* HALT again; at the VBlank vector EI, then HALT.
WakeProgram(pc) ==
    IF pc = \h0100 THEN {<<\hFB, 0, 0>>, <<\h00, 0, 0>>}
    ELSE IF pc = \h0102 THEN {<<\hAF, 0, 0>>}
    ELSE IF pc = \h0103 THEN {<<\hE0, \h0F, 0>>}
    ELSE IF pc = \h0040 THEN {<<\hFB, 0, 0>>}
    ELSE {<<\h76, 0, 0>>}

\* The bus.step cycles after which the host stops calling run_frame
WakeCycleCap == 140000

WakeCpuStep ==
    /\ rf = "cpu"
    /\ FrameLoopRuns
    /\ \E ins \in WakeProgram(cpu.pc) : CpuDoStep(ins)
    /\ rf' = "bus"
    /\ UNCHANGED <<cycles, vblank, stat_irq, rendered, total, frames, vblanks, saved>>

\* The host calls run_frame again
FrameCall ==
    /\ rf = "host"
    /\ total < WakeCycleCap
    /\ rf' = "cpu"
    /\ cycles' = 0
    /\ last' = "call"
    /\ UNCHANGED <<cpu, bus, c, pending, fetched, disp, opc, vblank, stat_irq,
                   rendered, total, frames, vblanks, saved>>

NextWake == WakeCpuStep \/ RunFrameBusStep \/ FrameReturn \/ FrameCall

SpecWake == InitWake /\ [][NextWake]_vars

\* run_frame is a sequential loop and the host calls it frame after frame:
\* weak fairness of NextWake, whose enabling condition is written out (a
\* step can be taken in every state but the one after the last return)
SpecWakeFair ==
    SpecWake /\ ([]<>(rf = "host" /\ total >= WakeCycleCap) \/ []<><<NextWake>>_vars)

\* The cycles that the PPU still takes to reach line 144
CyclesToVBlank(p) ==
    (IF p.ly < VBlankLine THEN VBlankLine - p.ly
     ELSE LinesPerFrame + VBlankLine - p.ly) * ScanlineCycles - p.cycle_acc

\* C36: while the CPU is halted with the LCD on, line 144 is at most 70224
\* cycles away; every bus.step of the halted CPU is passed 4 cycles and
\* either moves the PPU 4 cycles closer to line 144 or reaches it and raises
\* iflag bit 0; the cpu.step of the halted CPU that finds iflag bit 0 and ie
\* bit 0 set leaves HALT, dispatching to 0x40 without a fetch when IME is
\* set and fetching with no dispatch when IME is clear (halted afterwards
\* only if the instruction it fetched is HALT); the cpu.step that finds
\* ie & iflag = 0 stays halted and fetches nothing; and a CPU halted during
\* the first call of run_frame with ie bit 0 set and the LCD on does come to
\* a cpu.step that finds bit 0 pending and dispatches to 0x40 or fetches.
HaltedWakesOnVBlank ==
    /\ []((cpu.halted /\ Bit(bus.ppu.lcdc, 7) = 1) =>
            CyclesToVBlank(bus.ppu) \in 1..FrameCycles)
    /\ [][(IsBusStep /\ cpu.halted /\ Bit(bus.ppu.lcdc, 7) = 1) =>
            /\ c = HaltCycles
            /\ IF CyclesToVBlank(bus.ppu) <= c
               THEN vblank' /\ Bit(bus'.iflag, 0) = 1
               ELSE CyclesToVBlank(bus'.ppu) = CyclesToVBlank(bus.ppu) - c]_vars
    /\ [][(IsCpuStep /\ cpu.halted /\ Bit(bus.ie, 0) = 1 /\ Bit(bus.iflag, 0) = 1) =>
            /\ cpu.ime => (disp' = 0 /\ cpu'.pc = \h40 /\ ~fetched' /\ ~cpu'.halted)
            /\ ~cpu.ime => (disp' = -1 /\ fetched' /\ (cpu'.halted => opc' = \h76))]_vars
    /\ [][(IsCpuStep /\ cpu.halted /\ And8(bus.ie, bus.iflag) = 0) =>
            (cpu' = cpu /\ ~fetched')]_vars
    /\ (cpu.halted /\ Bit(bus.ie, 0) = 1 /\ Bit(bus.ppu.lcdc, 7) = 1
           /\ total <= FrameCycles)
         ~> (last = "cpu" /\ Bit(pending, 0) = 1 /\ (fetched \/ disp = 0))

\* C36 witness: the CPU that halted at the VBlank vector 28 cycles after
\* line 144 of the first frame is woken by line 144 of the second, 70196
\* cycles later, and dispatches to 0x40 again
HaltedWakesOnVBlankWitness ==
    /\ last = "cpu" /\ disp = 0 /\ ~cpu.halted /\ cpu.pc = \h40
    /\ total = 135888 /\ vblanks = 2 /\ cpu.sp = \hFFFA

====
